---- MODULE Spec2Model ----
(***************************************************************************)
(* Model of the advanced-search KQL translator of ocis-advanced-search:    *)
(* the serializer buildKQL (src/utils/kql.ts), the parser                   *)
(* parseKqlToFilters (composables/useAdvancedSearch.ts) and the escaping   *)
(* primitives; the search view and its requests (executeSearch, loadMore)  *)
(* and the saved and recent searches (composables/useSearchHistory.ts).    *)
(*                                                                         *)
(* A JavaScript string is a sequence of one-character strings, so that     *)
(* escaping, splitting, trimming and the regular expressions act on        *)
(* characters as the code does.  A JavaScript value is a record tagged by  *)
(* its type (field t).                                                     *)
(***************************************************************************)
EXTENDS Integers, Sequences, FiniteSets, TLC

VARIABLES
    filters,    \* state.filters, the FilterState
    kqlQuery,   \* state.kqlQuery: the query built by buildKQL, or typed by the user
    kqlInput,   \* the KQL text handed to parseKqlToFilters
    thrown,     \* TRUE when the call raised instead of returning
    src,        \* the FilterState buildKQL was called with
    segs,       \* the clause texts the typed query was put together from
    topParts,   \* the top-level parts splitKqlParts cut kqlInput into
    rawValue,   \* the argument of escapeKQL
    escaped,    \* the string escapeKQL returned
    searchBody, \* the oc:pattern element of the body of the search request
    searchTerm, \* the text of the main search input of the view
    loading,    \* state.loading
    results,    \* state.results: null, or items, hasMore and currentPage
    inflight,   \* the executeSearch calls that await their response
    started,    \* how many executeSearch calls have been made
    savedQueries,   \* savedQueries.value, the list in memory
    storage,        \* the list held by localStorage under STORAGE_KEY
    storageError,   \* storageError.value
    returned,       \* what the last call on the saved searches returned
    nextId,         \* how many ids generateId has handed out
    recentSearches, \* recentSearches.value
    readds,         \* how often addToRecent was given a term already listed
    pc          \* which call has been made

\* the state of the requests, and of the saved and recent searches
requestVars == <<loading, results, inflight, started>>
historyVars == <<savedQueries, storage, storageError, returned, nextId, recentSearches, readds>>

vars == <<filters, kqlQuery, kqlInput, thrown, src, segs, topParts, rawValue, escaped,
          searchBody, searchTerm, requestVars, historyVars, pc>>

-----------------------------------------------------------------------------
(* Bounds of the model.                                                    *)

MaxEscLen == 2      \* longest argument of escapeKQL
MaxFields == 2      \* most fields set at once in a FilterState input
MaxSegs == 2        \* most clause texts joined into one query
MaxXmlLen == 2      \* longest search term of a request
MaxRanges == 1      \* most fields set at once while the range inputs are edited
MaxStack == 8       \* deepest nesting of parseKqlPart calls the stack holds
MaxSaved == 3       \* most saved searches held in memory
MaxIds == 4         \* most ids generateId hands out
MaxRequests == 3    \* most executeSearch calls of a behaviour
PageSize == 2       \* pageSize: the limit of a request, and the size of a full page
MaxImport == 2      \* most entries of an imported list
MaxReAdds == 2      \* most addToRecent calls with a term that is already listed

-----------------------------------------------------------------------------
(* Characters and strings.                                                 *)

LowerAlpha == <<"a","b","c","d","e","f","g","h","i","j","k","l","m",
                "n","o","p","q","r","s","t","u","v","w","x","y","z">>
UpperAlpha == <<"A","B","C","D","E","F","G","H","I","J","K","L","M",
                "N","O","P","Q","R","S","T","U","V","W","X","Y","Z">>
Digits == <<"0","1","2","3","4","5","6","7","8","9">>

Range(s) == {s[i] : i \in 1..Len(s)}

IndexIn(c, s) == CHOOSE i \in 1..Len(s) : s[i] = c

\* String.prototype.toLowerCase / toUpperCase, one character
LowerChar(c) == IF c \in Range(UpperAlpha) THEN LowerAlpha[IndexIn(c, UpperAlpha)] ELSE c
UpperChar(c) == IF c \in Range(LowerAlpha) THEN UpperAlpha[IndexIn(c, LowerAlpha)] ELSE c
toLowerCase(s) == [i \in 1..Len(s) |-> LowerChar(s[i])]
toUpperCase(s) == [i \in 1..Len(s) |-> UpperChar(s[i])]

\* the characters \s matches and trim() strips, among those of the model
Whitespace == {" ", "\t"}

IsLetter(c) == c \in Range(LowerAlpha) \cup Range(UpperAlpha)
IsDigit(c) == c \in Range(Digits)

\* s.substring(from - 1, to): the characters from..to, 1-based, inclusive,
\* with both ends clamped to the string
Sub(s, from, to) ==
    LET a == IF from < 1 THEN 1 ELSE from
        b == IF to > Len(s) THEN Len(s) ELSE to
    IN  IF a > b THEN <<>> ELSE SubSeq(s, a, b)

\* s.includes(t)
includes(s, t) ==
    \E i \in 1..(Len(s) - Len(t) + 1) : Sub(s, i, i + Len(t) - 1) = t

\* s.indexOf(c) for one character, 1-based; 0 when absent
indexOf(s, c) ==
    IF \E i \in 1..Len(s) : s[i] = c
    THEN CHOOSE i \in 1..Len(s) : s[i] = c /\ \A j \in 1..(i - 1) : s[j] # c
    ELSE 0

startsWith(s, c) == Len(s) >= 1 /\ s[1] = c
endsWith(s, c) == Len(s) >= 1 /\ s[Len(s)] = c

\* s.trim()
trim(s) ==
    LET keep == {i \in 1..Len(s) : s[i] \notin Whitespace}
    IN  IF keep = {} THEN <<>>
        ELSE Sub(s, CHOOSE i \in keep : \A j \in keep : i <= j,
                    CHOOSE i \in keep : \A j \in keep : i >= j)

\* list.join(sep)
RECURSIVE join(_, _)
join(list, sep) ==
    IF Len(list) = 0 THEN <<>>
    ELSE IF Len(list) = 1 THEN list[1]
    ELSE list[1] \o sep \o join(Tail(list), sep)

\* all strings over the characters cs of length at most n
RECURSIVE StringsUpTo(_, _)
StringsUpTo(cs, n) ==
    IF n = 0 THEN {<<>>}
    ELSE LET shorter == StringsUpTo(cs, n - 1)
         IN  shorter \cup {Append(s, c) : s \in shorter, c \in cs}

-----------------------------------------------------------------------------
(* Escaping primitives (src/utils/kql.ts).                                 *)

\* the character class of the wildcard branch: [+\-=&|><!(){}[\]^"~:\\/]
WILDCARD_SPECIAL_CHARS ==
    {"+", "-", "=", "&", "|", ">", "<", "!", "(", ")", "{", "}", "[", "]",
     "^", "\"", "~", ":", "\\", "/"}

\* KQL_SPECIAL_CHARS: [+\-=&|><!(){}[\]^"~*?:\\/\s]
KQL_SPECIAL_CHARS == WILDCARD_SPECIAL_CHARS \cup {"*", "?"} \cup Whitespace

\* value.replace(/[class]/g, '\\$&')
RECURSIVE replaceEscape(_, _, _)
replaceEscape(s, class, i) ==
    IF i > Len(s) THEN <<>>
    ELSE (IF s[i] \in class THEN <<"\\", s[i]>> ELSE <<s[i]>>)
         \o replaceEscape(s, class, i + 1)

escapeKQL(v) ==
    IF includes(v, <<"*">>) \/ includes(v, <<"?">>)
    THEN replaceEscape(v, WILDCARD_SPECIAL_CHARS, 1)
    ELSE replaceEscape(v, KQL_SPECIAL_CHARS, 1)

-----------------------------------------------------------------------------
(* JavaScript values.  A number is a sign, an integer part and the digits  *)
(* after the decimal point (none for an integer, never ending in 0), which *)
(* is exact for the decimal numbers the filters hold.                      *)

Undefined == [t |-> "undefined"]
NaN == [t |-> "NaN"]
Str(s) == [t |-> "string", s |-> s]
Num(neg, i, f) == [t |-> "number", neg |-> neg /\ (i # 0 \/ f # <<>>), i |-> i, f |-> f]
IntNum(i) == Num(FALSE, i, <<>>)
\* { min, max } and { start, end }
NumericRange(min, max) == [t |-> "object", min |-> min, max |-> max]
DateRange(start, end) == [t |-> "object", start |-> start, end |-> end]

\* v.k : undefined for a property the value does not have
Prop(v, k) == IF v.t = "object" /\ k \in DOMAIN v THEN v[k] ELSE Undefined

\* the truth value of v in a condition
Truthy(v) ==
    CASE v.t = "undefined" -> FALSE
      [] v.t = "NaN" -> FALSE
      [] v.t = "null" -> FALSE
      [] v.t = "string" -> v.s # <<>>
      [] v.t = "number" -> v.i # 0 \/ v.f # <<>>
      [] OTHER -> TRUE

\* a call of a String method (trim, includes, split, replace) on v raises a
\* TypeError unless v is a string
NotAString(v) == v.t # "string"

RECURSIVE natToString(_)
natToString(n) ==
    IF n < 10 THEN <<Digits[n + 1]>>
    ELSE natToString(n \div 10) \o <<Digits[(n % 10) + 1]>>

DigitValue(c) == IndexIn(c, Digits) - 1

RECURSIVE digitsToNat(_)
digitsToNat(ds) ==
    IF Len(ds) = 0 THEN 0
    ELSE 10 * digitsToNat(Sub(ds, 1, Len(ds) - 1)) + DigitValue(ds[Len(ds)])

RECURSIVE stripTrailingZeros(_)
stripTrailingZeros(ds) ==
    IF Len(ds) > 0 /\ ds[Len(ds)] = "0"
    THEN stripTrailingZeros(Sub(ds, 1, Len(ds) - 1))
    ELSE ds

\* `${v}` in a template literal
TemplateString(v) ==
    CASE v.t = "undefined" -> <<"u","n","d","e","f","i","n","e","d">>
      [] v.t = "NaN" -> <<"N","a","N">>
      [] v.t = "string" -> v.s
      [] v.t = "number" ->
            (IF v.neg THEN <<"-">> ELSE <<>>) \o natToString(v.i)
            \o (IF v.f = <<>> THEN <<>> ELSE <<".">> \o v.f)
      [] OTHER -> <<"[","o","b","j","e","c","t"," ","O","b","j","e","c","t","]">>

\* the length of the longest run of digits of s that starts at position i
RECURSIVE digitRun(_, _)
digitRun(s, i) ==
    IF i <= Len(s) /\ IsDigit(s[i]) THEN 1 + digitRun(s, i + 1) ELSE 0

\* the position of the first character, from i on, that is not white space
RECURSIVE skipSpace(_, _)
skipSpace(s, i) ==
    IF i <= Len(s) /\ s[i] \in Whitespace THEN skipSpace(s, i + 1) ELSE i

\* parseInt(s, 10): white space, a sign, then digits; NaN without a digit
parseInt(s) ==
    LET p == skipSpace(s, 1)
        signed == p <= Len(s) /\ s[p] \in {"+", "-"}
        q == IF signed THEN p + 1 ELSE p
        n == digitRun(s, q)
    IN  IF n = 0 THEN NaN
        ELSE Num(signed /\ s[p] = "-", digitsToNat(Sub(s, q, q + n - 1)), <<>>)

\* parseFloat(s): white space, a sign, digits, a point and digits (the model's
\* strings hold no exponent and no "Infinity"); NaN without a digit
parseFloat(s) ==
    LET p == skipSpace(s, 1)
        signed == p <= Len(s) /\ s[p] \in {"+", "-"}
        q == IF signed THEN p + 1 ELSE p
        n == digitRun(s, q)
        point == q + n <= Len(s) /\ s[q + n] = "."
        m == IF point THEN digitRun(s, q + n + 1) ELSE 0
    IN  IF n = 0 /\ m = 0 THEN NaN
        ELSE Num(signed /\ s[p] = "-", digitsToNat(Sub(s, q, q + n - 1)),
                 stripTrailingZeros(Sub(s, q + n + 1, q + n + m)))

\* createEmptyFilters(): no term, and no field set in either section
EmptyStandard ==
    [t |-> "object", name |-> Undefined, type |-> Undefined,
     mediaType |-> Undefined, sizeRange |-> Undefined,
     modifiedRange |-> Undefined, tags |-> Undefined, content |-> Undefined]

EmptyPhoto ==
    [t |-> "object", cameraMake |-> Undefined, cameraModel |-> Undefined,
     takenDateRange |-> Undefined, isoRange |-> Undefined,
     fNumberRange |-> Undefined, focalLengthRange |-> Undefined,
     orientation |-> Undefined]

createEmptyFilters ==
    [term |-> Str(<<>>), standard |-> EmptyStandard, photo |-> EmptyPhoto]

-----------------------------------------------------------------------------
(* Serializer (src/utils/kql.ts): FilterState -> query string.             *)

S_name == <<"n","a","m","e">>
S_type == <<"t","y","p","e">>
S_file == <<"f","i","l","e">>
S_folder == <<"f","o","l","d","e","r">>
S_size == <<"s","i","z","e">>
S_mtime == <<"m","t","i","m","e">>
S_mediatype == <<"m","e","d","i","a","t","y","p","e">>
S_tags == <<"t","a","g","s">>
S_tag == <<"t","a","g">>
S_content == <<"c","o","n","t","e","n","t">>
S_photo == <<"p","h","o","t","o",".">>
S_cameramake == S_photo \o <<"c","a","m","e","r","a","m","a","k","e">>
S_cameramodel == S_photo \o <<"c","a","m","e","r","a","m","o","d","e","l">>
S_takendatetime == S_photo \o <<"t","a","k","e","n","d","a","t","e","t","i","m","e">>
S_iso == S_photo \o <<"i","s","o">>
S_fnumber == S_photo \o <<"f","n","u","m","b","e","r">>
S_focallength == S_photo \o <<"f","o","c","a","l","l","e","n","g","t","h">>
S_orientation == S_photo \o <<"o","r","i","e","n","t","a","t","i","o","n">>
S_AND == <<" ","A","N","D"," ">>
S_OR == <<" ","O","R"," ">>
S_GE == <<">","=">>
S_LE == <<"<","=">>

Null == [t |-> "null"]

\* /^\d{4}-\d{2}-\d{2}$/.test(s)
IsIsoDate(s) ==
    /\ Len(s) = 10
    /\ \A i \in {1, 2, 3, 4, 6, 7, 9, 10} : IsDigit(s[i])
    /\ s[5] = "-" /\ s[8] = "-"

\* YYYY-MM-DDTHH:MM:SSZ with a month, day and time every engine accepts: the
\* one other form of date the model's inputs hold that new Date() parses
IsUtcDateTime(s) ==
    /\ Len(s) = 20
    /\ IsIsoDate(Sub(s, 1, 10))
    /\ s[11] = "T" /\ s[14] = ":" /\ s[17] = ":" /\ s[20] = "Z"
    /\ \A i \in {12, 13, 15, 16, 18, 19} : IsDigit(s[i])
    /\ digitsToNat(Sub(s, 6, 7)) \in 1..12
    /\ digitsToNat(Sub(s, 9, 10)) \in 1..28
    /\ digitsToNat(Sub(s, 12, 13)) \in 0..23
    /\ digitsToNat(Sub(s, 15, 16)) \in 0..59
    /\ digitsToNat(Sub(s, 18, 19)) \in 0..59

\* formatDateForKQL(date) for a string: unchanged in the YYYY-MM-DD form, the
\* UTC day of a date new Date() parses, unchanged when it parses nothing
formatDateForKQL(date) ==
    IF IsIsoDate(date) THEN date
    ELSE IF IsUtcDateTime(date) THEN Sub(date, 1, 10)
    ELSE date

\* buildRangeQuery without the parentheses around two bounds
buildRangeQuery_noGroup(field, range) ==
    LET min == Prop(range, "min")
        max == Prop(range, "max")
        parts == (IF min # Undefined THEN <<field \o S_GE \o TemplateString(min)>> ELSE <<>>)
                 \o (IF max # Undefined THEN <<field \o S_LE \o TemplateString(max)>> ELSE <<>>)
    IN  IF min = Undefined /\ max = Undefined THEN Null
        ELSE Str(join(parts, S_AND))

\* buildRangeQuery(field, range): the clause, or null
buildRangeQuery(field, range) ==
    LET min == Prop(range, "min")
        max == Prop(range, "max")
        parts == (IF min # Undefined THEN <<field \o S_GE \o TemplateString(min)>> ELSE <<>>)
                 \o (IF max # Undefined THEN <<field \o S_LE \o TemplateString(max)>> ELSE <<>>)
    IN  IF min = Undefined /\ max = Undefined THEN Null
        ELSE IF Len(parts) = 2 THEN Str(<<"(">> \o join(parts, S_AND) \o <<")">>)
        ELSE Str(parts[1])

\* buildDateRangeQuery(field, range): the clause, or null
buildDateRangeQuery(field, range) ==
    LET start == Prop(range, "start")
        end == Prop(range, "end")
        parts == (IF Truthy(start)
                  THEN <<field \o S_GE \o formatDateForKQL(TemplateString(start))>> ELSE <<>>)
                 \o (IF Truthy(end)
                     THEN <<field \o S_LE \o formatDateForKQL(TemplateString(end))>> ELSE <<>>)
    IN  IF ~Truthy(start) /\ ~Truthy(end) THEN Null
        ELSE IF Len(parts) = 2 THEN Str(<<"(">> \o join(parts, S_AND) \o <<")">>)
        ELSE Str(parts[1])

\* s.split(c) on one character: the pieces between its occurrences
RECURSIVE splitChar(_, _)
splitChar(s, c) ==
    LET i == indexOf(s, c)
    IN  IF i = 0 THEN <<s>>
        ELSE <<Sub(s, 1, i - 1)>> \o splitChar(Sub(s, i + 1, Len(s)), c)

\* the tag list with the empty pieces kept
tagListOf_keepEmpty(tags) ==
    LET pieces == splitChar(tags, ",")
    IN  [i \in 1..Len(pieces) |-> trim(pieces[i])]

\* tags.split(',').map(t => t.trim()).filter(Boolean)
tagListOf(tags) ==
    LET pieces == splitChar(tags, ",")
        trimmed == [i \in 1..Len(pieces) |-> trim(pieces[i])]
    IN  SelectSeq(trimmed, LAMBDA t : t # <<>>)

\* `if (q) parts.push(q)` and `if (v) parts.push(`field:${escapeKQL(v)}`)`
pushIf(q) == IF Truthy(q) THEN <<q.s>> ELSE <<>>
pushField(field, v) ==
    IF Truthy(v) THEN <<field \o <<":">> \o escapeKQL(v.s)>> ELSE <<>>

\* termClause with the test for ':' left out: every term is wrapped
termClause_alwaysWrapped(term) ==
    IF Truthy(term) /\ trim(term.s) # <<>>
    THEN <<S_name \o <<":", "*">> \o escapeKQL(trim(term.s)) \o <<"*">>>>
    ELSE <<>>

\* the term clause of buildStandardKQL: a term without ':' searches the name
\* between wildcards, a term with ':' is passed through
termClause(term) ==
    IF Truthy(term) /\ trim(term.s) # <<>>
    THEN IF ~includes(term.s, <<":">>)
         THEN <<S_name \o <<":", "*">> \o escapeKQL(trim(term.s)) \o <<"*">>>>
         ELSE <<trim(term.s)>>
    ELSE <<>>

\* the type clause with the type written as it is stored
typeClause_literal(type) ==
    IF type \in {Str(S_file), Str(S_folder)} THEN <<<<"T","y","p","e",":">> \o type.s>>
    ELSE <<>>

\* the type clause: 1 = file, 2 = folder
typeClause(type) ==
    IF type = Str(S_file) THEN <<<<"T","y","p","e",":","1">>>>
    ELSE IF type = Str(S_folder) THEN <<<<"T","y","p","e",":","2">>>>
    ELSE <<>>

\* the tags clause: one tag plain, several joined by OR in one group
tagsClause(tags) ==
    LET tagList == tagListOf(tags.s)
    IN  IF ~Truthy(tags) THEN <<>>
        ELSE IF Len(tagList) = 1 THEN <<S_tags \o <<":">> \o escapeKQL(tagList[1])>>
        ELSE IF Len(tagList) > 1
        THEN <<<<"(">>
               \o join([i \in 1..Len(tagList) |->
                           S_tags \o <<":">> \o escapeKQL(tagList[i])], S_OR)
               \o <<")">>>>
        ELSE <<>>

\* buildStandardKQL(standard, term): the clauses pushed, or thrown when a
\* property is read from a missing section or a string method is called on a
\* value that is not a string
buildStandardKQL(standard, term) ==
    LET name == Prop(standard, "name")
        sizeRange == Prop(standard, "sizeRange")
        modifiedRange == Prop(standard, "modifiedRange")
        mediaType == Prop(standard, "mediaType")
        tags == Prop(standard, "tags")
        content == Prop(standard, "content")
        raises ==
            \/ standard.t \in {"undefined", "null"}
            \/ \E v \in {term, name, mediaType, tags, content} : Truthy(v) /\ NotAString(v)
    IN  IF raises THEN [thrown |-> TRUE, parts |-> <<>>]
        ELSE [thrown |-> FALSE,
              parts |->
                 termClause(term)
                 \o pushField(S_name, name)
                 \o typeClause(Prop(standard, "type"))
                 \o (IF Truthy(sizeRange) THEN pushIf(buildRangeQuery(S_size, sizeRange)) ELSE <<>>)
                 \o (IF Truthy(modifiedRange)
                     THEN pushIf(buildDateRangeQuery(S_mtime, modifiedRange)) ELSE <<>>)
                 \o pushField(S_mediatype, mediaType)
                 \o tagsClause(tags)
                 \o pushField(S_content, content)]

\* orientation > 0
Positive(v) == v.t = "number" /\ ~v.neg /\ (v.i > 0 \/ v.f # <<>>)

\* buildPhotoKQL(photo)
buildPhotoKQL(photo) ==
    LET cameraMake == Prop(photo, "cameraMake")
        cameraModel == Prop(photo, "cameraModel")
        takenDateRange == Prop(photo, "takenDateRange")
        isoRange == Prop(photo, "isoRange")
        fNumberRange == Prop(photo, "fNumberRange")
        focalLengthRange == Prop(photo, "focalLengthRange")
        orientation == Prop(photo, "orientation")
        raises ==
            \/ photo.t \in {"undefined", "null"}
            \/ \E v \in {cameraMake, cameraModel} : Truthy(v) /\ NotAString(v)
    IN  IF raises THEN [thrown |-> TRUE, parts |-> <<>>]
        ELSE [thrown |-> FALSE,
              parts |->
                 pushField(S_cameramake, cameraMake)
                 \o pushField(S_cameramodel, cameraModel)
                 \o (IF Truthy(takenDateRange)
                     THEN pushIf(buildDateRangeQuery(S_takendatetime, takenDateRange)) ELSE <<>>)
                 \o (IF Truthy(isoRange) THEN pushIf(buildRangeQuery(S_iso, isoRange)) ELSE <<>>)
                 \o (IF Truthy(fNumberRange)
                     THEN pushIf(buildRangeQuery(S_fnumber, fNumberRange)) ELSE <<>>)
                 \o (IF Truthy(focalLengthRange)
                     THEN pushIf(buildRangeQuery(S_focallength, focalLengthRange)) ELSE <<>>)
                 \o (IF orientation # Undefined /\ Positive(orientation)
                     THEN <<S_orientation \o <<":">> \o TemplateString(orientation)>>
                     ELSE <<>>)]

\* the clauses buildKQL collects: [...buildStandardKQL(standard, term || ''),
\* ...buildPhotoKQL(photo)]
kqlParts(f) ==
    LET std == buildStandardKQL(f.standard, IF Truthy(f.term) THEN f.term ELSE Str(<<>>))
        pho == buildPhotoKQL(f.photo)
    IN  [thrown |-> std.thrown \/ pho.thrown, parts |-> std.parts \o pho.parts]

\* buildKQL without the '*' of the empty query
buildKQL_noWildcard(f) ==
    LET p == kqlParts(f)
    IN  [thrown |-> p.thrown, value |-> IF p.thrown THEN <<>> ELSE join(p.parts, S_AND)]

\* buildKQL(filters): the query, or thrown
buildKQL(f) ==
    LET p == kqlParts(f)
    IN  [thrown |-> p.thrown,
         value |-> IF p.thrown THEN <<>>
                   ELSE IF Len(p.parts) > 0 THEN join(p.parts, S_AND) ELSE <<"*">>]

\* buildKQLQuery (composables/useAdvancedSearch.ts): the computed repeats
\* buildKQL clause for clause on state.filters
buildKQLQuery(f) == buildKQL(f)

-----------------------------------------------------------------------------
(* Parser (composables/useAdvancedSearch.ts): query string -> FilterState. *)

\* "AND" in any letter case followed by white space, at position q
AndAt(s, q) ==
    /\ q + 3 <= Len(s)
    /\ toUpperCase(Sub(s, q, q + 2)) = <<"A","N","D">>
    /\ s[q + 3] \in Whitespace

\* where /\s+(AND)\s+/i first matches at or after position from; 0 if nowhere
matchAND(s, from) ==
    LET starts == {p \in from..Len(s) : s[p] \in Whitespace /\ AndAt(s, skipSpace(s, p))}
    IN  IF starts = {} THEN 0 ELSE CHOOSE p \in starts : \A r \in starts : p <= r

\* s.split(/\s+(AND)\s+/i), from position from: the texts between the matches
\* alternating with the captured AND
RECURSIVE splitAND(_, _)
splitAND(s, from) ==
    LET p == matchAND(s, from)
        q == skipSpace(s, p)
    IN  IF p = 0 THEN <<Sub(s, from, Len(s))>>
        ELSE <<Sub(s, from, p - 1), Sub(s, q, q + 2)>> \o splitAND(s, skipSpace(s, q + 3))

\* how many times c occurs in s
count(s, c) == Cardinality({i \in 1..Len(s) : s[i] = c})

\* the loop of splitKqlParts with the ')' never counted
RECURSIVE splitLoop_noClose(_, _, _, _, _)
splitLoop_noClose(tokens, i, parts, current, depth) ==
    IF i > Len(tokens)
    THEN IF trim(current) # <<>> THEN Append(parts, trim(current)) ELSE parts
    ELSE IF toUpperCase(tokens[i]) = <<"A","N","D">>
    THEN IF depth = 0
         THEN splitLoop_noClose(tokens, i + 1,
                        IF trim(current) # <<>> THEN Append(parts, trim(current)) ELSE parts,
                        <<>>, depth)
         ELSE splitLoop_noClose(tokens, i + 1, parts, current \o S_AND, depth)
    ELSE splitLoop_noClose(tokens, i + 1, parts, current \o tokens[i],
                           depth + count(tokens[i], "("))

\* the loop of splitKqlParts over the tokens, from token i on
RECURSIVE splitLoop(_, _, _, _, _)
splitLoop(tokens, i, parts, current, depth) ==
    IF i > Len(tokens)
    THEN IF trim(current) # <<>> THEN Append(parts, trim(current)) ELSE parts
    ELSE IF toUpperCase(tokens[i]) = <<"A","N","D">>
    THEN IF depth = 0
         THEN splitLoop(tokens, i + 1,
                        IF trim(current) # <<>> THEN Append(parts, trim(current)) ELSE parts,
                        <<>>, depth)
         ELSE splitLoop(tokens, i + 1, parts, current \o S_AND, depth)
    ELSE splitLoop(tokens, i + 1, parts, current \o tokens[i],
                   depth + count(tokens[i], "(") - count(tokens[i], ")"))

\* splitKqlParts(kql)
splitKqlParts(kql) == splitLoop(splitAND(kql, 1), 1, <<>>, <<>>, 0)

\* the field of a comparison as letters only: /^([a-z]+)/i
RECURSIVE fieldRun_noDot(_, _)
fieldRun_noDot(s, i) ==
    IF i <= Len(s) /\ IsLetter(s[i]) THEN 1 + fieldRun_noDot(s, i + 1) ELSE 0

\* part.match(/^([a-z.]+)(>=|<=|>|<)(.+)$/i): the field is the letters and dots
\* the part starts with, the operator the first alternative that leaves a
\* value of at least one character
RECURSIVE fieldRun(_, _)
fieldRun(s, i) ==
    IF i <= Len(s) /\ (IsLetter(s[i]) \/ s[i] = ".") THEN 1 + fieldRun(s, i + 1) ELSE 0

parseRangePart(part) ==
    LET n == fieldRun(part, 1)
        two == Sub(part, n + 1, n + 2)
        one == Sub(part, n + 1, n + 1)
        match(op, val) ==
            [t |-> "object", field |-> toLowerCase(Sub(part, 1, n)), op |-> op, value |-> val]
    IN  IF n = 0 THEN Null
        ELSE IF two \in {S_GE, S_LE} /\ Len(part) >= n + 3
        THEN match(two, Sub(part, n + 3, Len(part)))
        ELSE IF one \in {<<">">>, <<"<">>} /\ Len(part) >= n + 2
        THEN match(one, Sub(part, n + 2, Len(part)))
        ELSE Null

\* the bound taken from the first comparison only
boundOf_range1(ranges, ops) ==
    IF ranges[1].op \in ops THEN Str(ranges[1].value) ELSE Undefined

\* the loop of applyRangeToFilters over the ranges: the value of the last
\* comparison whose operator is one of ops, undefined if there is none
boundOf(ranges, ops) ==
    LET S == {i \in 1..Len(ranges) : ranges[i].op \in ops}
    IN  IF S = {} THEN Undefined
        ELSE Str(ranges[CHOOSE i \in S : \A j \in S : i >= j].value)

\* applyRangeToFilters(field, range1, range2) on the filters f
applyRangeToFilters(f, field, range1, range2) ==
    LET ranges == IF range2 # Null THEN <<range1, range2>> ELSE <<range1>>
        min == boundOf(ranges, {S_GE, <<">">>})
        max == boundOf(ranges, {S_LE, <<"<">>})
        ints == NumericRange(IF min # Undefined THEN parseInt(min.s) ELSE Undefined,
                             IF max # Undefined THEN parseInt(max.s) ELSE Undefined)
        floats == NumericRange(IF min # Undefined THEN parseFloat(min.s) ELSE Undefined,
                               IF max # Undefined THEN parseFloat(max.s) ELSE Undefined)
        dates == DateRange(IF Truthy(min) THEN min ELSE Str(<<>>),
                           IF Truthy(max) THEN max ELSE Str(<<>>))
    IN  CASE field = S_size -> [f EXCEPT !.standard.sizeRange = ints]
          [] field = S_mtime -> [f EXCEPT !.standard.modifiedRange = dates]
          [] field = S_takendatetime -> [f EXCEPT !.photo.takenDateRange = dates]
          [] field = S_iso -> [f EXCEPT !.photo.isoRange = ints]
          [] field = S_fnumber -> [f EXCEPT !.photo.fNumberRange = floats]
          [] field = S_focallength -> [f EXCEPT !.photo.focalLengthRange = floats]
          [] OTHER -> f

\* value.replace(/\\([+\-=&|><!(){}[\]^"~:\\/])/g, '$1')
RECURSIVE unescapeKQL(_, _)
unescapeKQL(s, i) ==
    IF i > Len(s) THEN <<>>
    ELSE IF s[i] = "\\" /\ i < Len(s) /\ s[i + 1] \in WILDCARD_SPECIAL_CHARS
    THEN <<s[i + 1]>> \o unescapeKQL(s, i + 2)
    ELSE <<s[i]>> \o unescapeKQL(s, i + 1)

\* the quotes around a value are removed
stripQuotes(v) ==
    IF \/ startsWith(v, "\"") /\ endsWith(v, "\"")
       \/ startsWith(v, "'") /\ endsWith(v, "'")
    THEN Sub(v, 2, Len(v) - 1)
    ELSE v

\* a default case that would add the clause to the search term
unknownField_toTerm(f, field, value) ==
    [f EXCEPT !.term = Str((IF Truthy(@) THEN @.s \o <<" ">> ELSE <<>>) \o field \o <<":">> \o value)]

\* default: the field is logged, the filters are left as they are
unknownField(f, field, value) == f

\* a tags clause that would replace what the earlier ones stored
appendTag_overwrite(tags, value) == Str(value)

\* case 'tags', case 'tag': the value is appended to the tags with a comma
appendTag(tags, value) ==
    IF Truthy(tags) THEN Str(tags.s \o <<",">> \o value) ELSE Str(value)

\* the switch of parseKqlPart on the field of a field:value clause
applyFieldToFilters(f, field, v) ==
    CASE field = S_name -> [f EXCEPT !.standard.name = Str(v)]
      [] field = S_type ->
            [f EXCEPT !.standard.type =
                IF v = <<"1">> THEN Str(S_file)
                ELSE IF v = <<"2">> THEN Str(S_folder)
                ELSE Str(v)]
      [] field = S_mediatype -> [f EXCEPT !.standard.mediaType = Str(v)]
      [] field \in {S_tags, S_tag} ->
            [f EXCEPT !.standard.tags = appendTag(f.standard.tags, v)]
      [] field = S_content -> [f EXCEPT !.standard.content = Str(v)]
      [] field = S_cameramake -> [f EXCEPT !.photo.cameraMake = Str(v)]
      [] field = S_cameramodel -> [f EXCEPT !.photo.cameraModel = Str(v)]
      [] field = S_orientation -> [f EXCEPT !.photo.orientation = parseInt(v)]
      [] OTHER -> unknownField(f, field, v)

\* the texts of inner.split(/\s+AND\s+/i): the split without the separators
textsOf(tokens) == [i \in 1..((Len(tokens) + 1) \div 2) |-> tokens[2 * i - 1]]

\* the group handed on with its parentheses
sliceInner_whole(part) == part

\* part.slice(1, -1)
sliceInner(part) == Sub(part, 2, Len(part) - 1)

\* parseKqlPart(part) on the parse state st = [filters, thrown], at call depth
\* depth: a recursion deeper than the call stack raises a RangeError
RECURSIVE parseKqlPart(_, _, _)
RECURSIVE parseKqlParts(_, _, _, _)

parseKqlParts(st, list, i, depth) ==
    IF i > Len(list) \/ st.thrown THEN st
    ELSE parseKqlParts(parseKqlPart(st, trim(list[i]), depth), list, i + 1, depth)

parseKqlPart(st, part, depth) ==
    IF depth > MaxStack THEN [st EXCEPT !.thrown = TRUE]
    ELSE IF startsWith(part, "(") /\ endsWith(part, ")")
    THEN LET inner == sliceInner(part)
             rangeParts == textsOf(splitAND(inner, 1))
             range1 == parseRangePart(rangeParts[1])
             range2 == parseRangePart(rangeParts[2])
         IN  IF /\ includes(inner, S_AND)
                /\ Len(rangeParts) = 2
                /\ range1 # Null /\ range2 # Null
                /\ range1.field = range2.field
             THEN [st EXCEPT !.filters = applyRangeToFilters(@, range1.field, range1, range2)]
             ELSE parseKqlParts(st, splitKqlParts(inner), 1, depth + 1)
    ELSE LET rangeMatch == parseRangePart(part)
             colonIndex == indexOf(part, ":")
             field == toLowerCase(Sub(part, 1, colonIndex - 1))
             v == unescapeKQL(stripQuotes(Sub(part, colonIndex + 1, Len(part))), 1)
         IN  IF rangeMatch # Null
             THEN [st EXCEPT !.filters = applyRangeToFilters(@, rangeMatch.field, rangeMatch, Null)]
             ELSE IF colonIndex = 0
             THEN IF trim(part) # <<>>
                  THEN [st EXCEPT !.filters.term =
                           Str((IF Truthy(@) THEN @.s \o <<" ">> ELSE <<>>) \o trim(part))]
                  ELSE st
             ELSE [st EXCEPT !.filters = applyFieldToFilters(@, field, v)]

\* a parse that would keep the filters it finds
resetFilters_keep(stateFilters) == stateFilters

\* state.filters = createEmptyFilters(), whatever state.filters held
resetFilters(stateFilters) == createEmptyFilters

\* parseKqlToFilters(kql), called when state.filters holds stateFilters: the
\* filters are reset, then every top-level part is parsed
parseKqlToFilters(stateFilters, kql) ==
    LET reset == [filters |-> resetFilters(stateFilters), thrown |-> FALSE]
    IN  IF kql = <<>> \/ kql = <<"*">> THEN reset
        ELSE parseKqlParts(reset, splitKqlParts(kql), 1, 1)

-----------------------------------------------------------------------------
(* The state after construction of what a specification leaves alone.      *)

\* useAdvancedSearch(): loading false, results null, nothing requested
NoRequests ==
    /\ loading = FALSE
    /\ results = Null
    /\ inflight = {}
    /\ started = 0

\* useSearchHistory() over an empty localStorage
NoHistory ==
    /\ savedQueries = <<>>
    /\ storage = <<>>
    /\ storageError = Null
    /\ returned = Undefined
    /\ nextId = 0
    /\ recentSearches = <<>>
    /\ readds = 0

-----------------------------------------------------------------------------
(* The filter panel edits the filters through updateFilters,               *)
(* updateStandardFilters and updatePhotoFilters; buildKQL serializes them  *)
(* and parseKqlToFilters reads the query back.                             *)

D_jan1 == <<"2","0","2","4","-","0","1","-","0","1">>
D_dec31 == <<"2","0","2","4","-","1","2","-","3","1">>
D_jan5utc == <<"2","0","2","4","-","0","1","-","0","5","T","1","0",":","0","0",":","0","0","Z">>

NumericRanges(lo, hi) ==
    {NumericRange(lo, hi), NumericRange(lo, Undefined), NumericRange(Undefined, hi),
     NumericRange(Undefined, Undefined)}

DateRanges ==
    {DateRange(Str(D_jan1), Str(D_dec31)), DateRange(Str(D_jan1), Str(<<>>)),
     DateRange(Str(<<>>), Str(D_dec31)), DateRange(Str(<<>>), Str(<<>>))}

\* the values the documented fields take in the model
TermValues ==
    {Str(<<"c","a","t">>), Str(<<" ","c","a","t"," ">>), Str(<<"a"," ","b">>),
     Str(<<"x",":","y">>), Str(<<" ","x",":","y"," ">>), Str(<<" "," ">>),
     Str(<<"*",".","p","d","f">>)}

StandardValues ==
    [name |-> {Str(<<"c","a","t">>), Str(<<"C","a","n","o","n"," ","E","O","S">>),
               Str(<<"*",".","p","d","f">>), Str(<<"a","(","b">>)},
     type |-> {Str(S_file), Str(S_folder), Str(<<>>)},
     mediaType |-> {Str(<<"a","/","b">>)},
     sizeRange |-> NumericRanges(IntNum(100), IntNum(1000)),
     modifiedRange |-> DateRanges \cup {DateRange(Str(D_jan5utc), Str(<<>>))},
     tags |-> {Str(<<"a">>), Str(<<"a",","," ","b">>), Str(<<" ",","," ">>),
               Str(<<"x"," ","y",","," ",",","z">>), Str(<<"c",",","b",",","a">>)},
     content |-> {Str(<<"h","i">>)}]

PhotoValues ==
    [cameraMake |-> {Str(<<"C","a","n","o","n">>)},
     cameraModel |-> {Str(<<"R","5">>)},
     takenDateRange |-> DateRanges,
     isoRange |-> NumericRanges(IntNum(100), IntNum(800)),
     fNumberRange |-> NumericRanges(Num(FALSE, 1, <<"8">>), Num(FALSE, 2, <<"8">>)),
     focalLengthRange |-> NumericRanges(IntNum(24), Num(FALSE, 70, <<"5">>)),
     orientation |-> {IntNum(6), IntNum(0)}]

\* values outside the declared types: a number where a string is declared
InvalidTermValues == {IntNum(5)}
InvalidStandardValues ==
    [name |-> {IntNum(5)}, type |-> {IntNum(1)}, mediaType |-> {}, sizeRange |-> {Str(<<"x">>)},
     modifiedRange |-> {}, tags |-> {IntNum(5)}, content |-> {}]

StandardKeys == DOMAIN StandardValues
PhotoKeys == DOMAIN PhotoValues

\* how many fields of f differ from the empty FilterState
SetCount(f) ==
    (IF f.term = Str(<<>>) THEN 0 ELSE 1)
    + (IF f.standard = Undefined THEN 1
       ELSE Cardinality({k \in StandardKeys : f.standard[k] # Undefined}))
    + (IF f.photo = Undefined THEN 1
       ELSE Cardinality({k \in PhotoKeys : f.photo[k] # Undefined}))

\* every field of f holds a value of its declared type
Documented(f) ==
    /\ f.term \in TermValues \cup {Str(<<>>)}
    /\ f.standard # Undefined
    /\ \A k \in StandardKeys : f.standard[k] \in StandardValues[k] \cup {Undefined}
    /\ f.photo # Undefined
    /\ \A k \in PhotoKeys : f.photo[k] \in PhotoValues[k] \cup {Undefined}

InitBuild ==
    /\ filters = createEmptyFilters
    /\ pc = "edit"
    /\ kqlQuery = <<>>
    /\ kqlInput = <<>>
    /\ thrown = FALSE
    /\ src = createEmptyFilters
    /\ segs = <<>>
    /\ topParts = <<>>
    /\ searchBody = <<>>
    /\ searchTerm = <<>>
    /\ NoRequests
    /\ NoHistory
    /\ rawValue = <<>>
    /\ escaped = <<>>

\* updateFilters(updates): Object.assign(state.filters, updates)
updateFilters ==
    /\ pc = "edit"
    /\ SetCount(filters) < MaxFields
    /\ \/ /\ filters.term = Str(<<>>)
          /\ \E v \in TermValues \cup InvalidTermValues :
                filters' = [filters EXCEPT !.term = v]
       \/ /\ filters.standard = EmptyStandard
          /\ filters' = [filters EXCEPT !.standard = Undefined]
       \/ /\ filters.photo = EmptyPhoto
          /\ filters' = [filters EXCEPT !.photo = Undefined]
    /\ UNCHANGED <<historyVars, requestVars, searchTerm, searchBody, kqlQuery, kqlInput, thrown, src, segs, topParts, rawValue, escaped, pc>>

\* updateStandardFilters(updates): Object.assign(state.filters.standard, updates)
updateStandardFilters ==
    /\ pc = "edit"
    /\ SetCount(filters) < MaxFields
    /\ filters.standard # Undefined
    /\ \E k \in StandardKeys :
          /\ filters.standard[k] = Undefined
          /\ \E v \in StandardValues[k] \cup InvalidStandardValues[k] :
                filters' = [filters EXCEPT !.standard[k] = v]
    /\ UNCHANGED <<historyVars, requestVars, searchTerm, searchBody, kqlQuery, kqlInput, thrown, src, segs, topParts, rawValue, escaped, pc>>

\* updatePhotoFilters(updates): Object.assign(state.filters.photo, updates)
updatePhotoFilters ==
    /\ pc = "edit"
    /\ SetCount(filters) < MaxFields
    /\ filters.photo # Undefined
    /\ \E k \in PhotoKeys :
          /\ filters.photo[k] = Undefined
          /\ \E v \in PhotoValues[k] : filters' = [filters EXCEPT !.photo[k] = v]
    /\ UNCHANGED <<historyVars, requestVars, searchTerm, searchBody, kqlQuery, kqlInput, thrown, src, segs, topParts, rawValue, escaped, pc>>

\* executeSearch: state.kqlQuery = buildKQLQuery.value
BuildKQL ==
    /\ pc = "edit"
    /\ \E r \in {buildKQLQuery(filters)} :
          /\ kqlQuery' = r.value
          /\ thrown' = r.thrown
          /\ pc' = IF r.thrown THEN "threw" ELSE "built"
    /\ src' = filters
    /\ UNCHANGED <<historyVars, requestVars, searchTerm, searchBody, filters, kqlInput, segs, topParts, rawValue, escaped>>

\* filters.term || ''
termOrEmpty(f) == IF Truthy(f.term) THEN f.term.s ELSE <<>>

\* watch(searchTerm, (newTerm) => { state.filters.term = newTerm }): runs
\* when the value of searchTerm has changed
watchSearchTerm(f, oldTerm, newTerm) ==
    IF newTerm # oldTerm THEN [f EXCEPT !.term = Str(newTerm)] ELSE f

\* applyKqlToFilters(): parseKqlToFilters(state.kqlQuery || kqlQuery.value)
applyKqlToFilters ==
    /\ pc \in {"built", "typed", "edited", "searched", "no space"}
    /\ \E currentKql \in {IF kqlQuery # <<>> THEN kqlQuery ELSE buildKQLQuery(filters).value} :
          \E r \in {parseKqlToFilters(filters, currentKql)} :
             /\ searchTerm' = termOrEmpty(r.filters)
             /\ filters' = watchSearchTerm(r.filters, searchTerm, searchTerm')
             /\ thrown' = r.thrown
             /\ kqlInput' = currentKql
             /\ topParts' = splitKqlParts(currentKql)
    /\ pc' = "parsed"
    /\ UNCHANGED <<historyVars, requestVars, searchBody, kqlQuery, src, segs, rawValue, escaped>>

NextBuild ==
    \/ updateFilters
    \/ updateStandardFilters
    \/ updatePhotoFilters
    \/ BuildKQL
    \/ applyKqlToFilters

SpecBuild == InitBuild /\ [][NextBuild]_vars

-----------------------------------------------------------------------------
(* Properties of the serializer, under SpecBuild.                          *)

\* c is one of the clauses of the query q joined by ' AND '
IsClauseOf(q, c) ==
    \/ q = c
    \/ Sub(q, 1, Len(c) + 5) = c \o S_AND
    \/ Len(q) >= Len(c) + 5 /\ Sub(q, Len(q) - Len(c) - 4, Len(q)) = S_AND \o c
    \/ includes(q, S_AND \o c \o S_AND)

\* c is the first clause of the query q
IsFirstClauseOf(q, c) == q = c \/ Sub(q, 1, Len(c) + 5) = c \o S_AND

\* how many times the text t occurs in q
Occurrences(q, t) ==
    Cardinality({i \in 1..(Len(q) - Len(t) + 1) : Sub(q, i, i + Len(t) - 1) = t})

\* two values of a string field agree: both empty or unset, or equal
SameString(a, b) == (~Truthy(a) /\ ~Truthy(b)) \/ a = b

\* a range with no bound set counts as absent
NoNumericBound(r) == Prop(r, "min") = Undefined /\ Prop(r, "max") = Undefined
NoDateBound(r) == ~Truthy(Prop(r, "start")) /\ ~Truthy(Prop(r, "end"))

SameNumericRange(a, b) ==
    \/ NoNumericBound(a) /\ NoNumericBound(b)
    \/ Prop(a, "min") = Prop(b, "min") /\ Prop(a, "max") = Prop(b, "max")

\* two date bounds agree: both unset, or the same day
SameDate(a, b) ==
    \/ ~Truthy(a) /\ ~Truthy(b)
    \/ Truthy(a) /\ Truthy(b) /\ formatDateForKQL(a.s) = formatDateForKQL(b.s)

SameDateRange(a, b) ==
    \/ NoDateBound(a) /\ NoDateBound(b)
    \/ /\ SameDate(Prop(a, "start"), Prop(b, "start"))
       /\ SameDate(Prop(a, "end"), Prop(b, "end"))

\* two terms agree up to the white space around them
SameTerm(a, b) == trim(a.s) = trim(b.s)

\* two tags fields agree: the same tags in the same order
SameTags(a, b) ==
    (IF Truthy(a) THEN tagListOf(a.s) ELSE <<>>) = (IF Truthy(b) THEN tagListOf(b.s) ELSE <<>>)

SameOrientation(a, b) == (~Positive(a) /\ ~Positive(b)) \/ a = b

\* f and g are equal field by field and range bound by range bound
SameFilters(f, g) ==
    /\ SameTerm(f.term, g.term)
    /\ \A k \in {"name", "type", "mediaType", "content"} :
          SameString(f.standard[k], g.standard[k])
    /\ SameTags(f.standard.tags, g.standard.tags)
    /\ SameNumericRange(f.standard.sizeRange, g.standard.sizeRange)
    /\ SameDateRange(f.standard.modifiedRange, g.standard.modifiedRange)
    /\ \A k \in {"cameraMake", "cameraModel"} : SameString(f.photo[k], g.photo[k])
    /\ SameDateRange(f.photo.takenDateRange, g.photo.takenDateRange)
    /\ \A k \in {"isoRange", "fNumberRange", "focalLengthRange"} :
          SameNumericRange(f.photo[k], g.photo[k])
    /\ SameOrientation(f.photo.orientation, g.photo.orientation)

\* C1: for every FilterState f built from the documented fields,
\* parseKqlToFilters(buildKQL(f)) equals f field by field and range bound by
\* range bound.
C1_RoundTrip ==
    (pc = "parsed" /\ Documented(src)) => SameFilters(filters, src)

\* C3: buildKQL returns a query string without raising for every FilterState,
\* also one whose standard or photo section is missing or whose fields hold
\* invalid values.
C3_BuildNeverRaises ==
    pc \in {"built", "threw"} => ~thrown

\* C4: buildKQL returns the emitted clauses joined by ' AND ', the term clause
\* first, then the standard fields, then the photo fields; it returns '*'
\* exactly when no clause was emitted, so for the empty FilterState.
C4_JoinedOrWildcard ==
    pc = "built" =>
        LET trm == termClause(IF Truthy(src.term) THEN src.term ELSE Str(<<>>))
            std == buildStandardKQL(src.standard, Str(<<>>)).parts
            pho == buildPhotoKQL(src.photo).parts
            all == trm \o std \o pho
        IN  /\ (kqlQuery = <<"*">>) <=> (all = <<>>)
            /\ all # <<>> => kqlQuery = join(all, S_AND)
            /\ \A i \in 1..Len(all) : IsClauseOf(kqlQuery, all[i])
            /\ src = createEmptyFilters => kqlQuery = <<"*">>

C4_Witness ==
    /\ pc = "built"
    /\ src.term = Str(<<"c","a","t">>)
    /\ src.photo.cameraMake = Str(<<"C","a","n","o","n">>)
    /\ Occurrences(kqlQuery, S_AND) = 1

\* the range fields: section, key, index field, and whether the bounds are dates
RangeFields ==
    {<<"standard", "sizeRange", S_size, FALSE>>,
     <<"standard", "modifiedRange", S_mtime, TRUE>>,
     <<"photo", "takenDateRange", S_takendatetime, TRUE>>,
     <<"photo", "isoRange", S_iso, FALSE>>,
     <<"photo", "fNumberRange", S_fnumber, FALSE>>,
     <<"photo", "focalLengthRange", S_focallength, FALSE>>}

\* the bounds of a range as the query writes them: a number in decimal, a
\* date as YYYY-MM-DD; no text for a bound that is not set
LowerText(r, isDate) ==
    IF isDate
    THEN IF Truthy(Prop(r, "start")) THEN <<formatDateForKQL(Prop(r, "start").s)>> ELSE <<>>
    ELSE IF Prop(r, "min") # Undefined THEN <<TemplateString(Prop(r, "min"))>> ELSE <<>>

UpperText(r, isDate) ==
    IF isDate
    THEN IF Truthy(Prop(r, "end")) THEN <<formatDateForKQL(Prop(r, "end").s)>> ELSE <<>>
    ELSE IF Prop(r, "max") # Undefined THEN <<TemplateString(Prop(r, "max"))>> ELSE <<>>

C10_TermClause ==
    (pc = "built" /\ src.term.t = "string") =>
        LET t == trim(src.term.s)
        IN  IF t = <<>>
            THEN kqlQuery = buildKQL([src EXCEPT !.term = Str(<<>>)]).value
            ELSE IF includes(src.term.s, <<":">>)
            THEN IsFirstClauseOf(kqlQuery, t)
            ELSE IsFirstClauseOf(kqlQuery, S_name \o <<":", "*">> \o escapeKQL(t) \o <<"*">>)

C10_Witness ==
    /\ pc = "built"
    /\ src.term = Str(<<" ","x",":","y"," ">>)
    /\ src.standard.content # Undefined
    /\ IsFirstClauseOf(kqlQuery, <<"x",":","y">>)

-----------------------------------------------------------------------------
(* escapeKQL applied to every short string over the metacharacters, the    *)
(* wildcards, white space and two ordinary characters.                     *)

EscChars == KQL_SPECIAL_CHARS \cup {".", "a"}

InitEscape ==
    /\ rawValue \in StringsUpTo(EscChars, MaxEscLen)
    /\ escaped = <<>>
    /\ pc = "start"
    /\ filters = createEmptyFilters
    /\ kqlQuery = <<>>
    /\ kqlInput = <<>>
    /\ thrown = FALSE
    /\ src = createEmptyFilters
    /\ segs = <<>>
    /\ topParts = <<>>
    /\ searchBody = <<>>
    /\ searchTerm = <<>>
    /\ NoRequests
    /\ NoHistory

Escape ==
    /\ pc = "start"
    /\ escaped' = escapeKQL(rawValue)
    /\ pc' = "escaped"
    /\ UNCHANGED <<historyVars, requestVars, searchTerm, searchBody, filters, kqlQuery, kqlInput, thrown, src, segs, topParts, rawValue>>

NextEscape == Escape

SpecEscape == InitEscape /\ [][NextEscape]_vars

\* the query metacharacters: + - = & | > < ! ( ) { } [ ] ^ " ~ : \ / and
\* white space
Metacharacters ==
    {"+", "-", "=", "&", "|", ">", "<", "!", "(", ")", "{", "}", "[", "]",
     "^", "\"", "~", ":", "\\", "/", " ", "\t"}

\* s with a backslash before every metacharacter and nothing else changed
RECURSIVE BackslashEvery(_)
BackslashEvery(s) ==
    IF s = <<>> THEN <<>>
    ELSE (IF Head(s) \in Metacharacters THEN <<"\\", Head(s)>> ELSE <<Head(s)>>)
         \o BackslashEvery(Tail(s))

\* C9: escapeKQL puts a backslash before every metacharacter, white space
\* included; in a value holding '*' or '?' those two stay as they are and
\* every other metacharacter, white space included, is still escaped;
\* characters outside the set are never changed.
C9_EscapeEveryMetacharacter ==
    pc = "escaped" => escaped = BackslashEvery(rawValue)


-----------------------------------------------------------------------------
(* The KQL box: the user types a query (onKqlInput -> setKqlQuery) and     *)
(* applies it to the filters (applyKqlToFilters -> parseKqlToFilters).     *)
(* The typed queries are one or more of the texts below joined by ' AND '. *)

\* photo.cameramake:Canon
K_make ==
    <<"p","h","o","t","o",".","c","a","m","e","r","a","m","a","k","e",":","C","a","n","o","n">>

\* (photo.iso>=100 AND photo.iso<=800)
K_isoGroup ==
    <<"(","p","h","o","t","o",".","i","s","o",">","=","1","0","0"," ","A","N","D"," ","p","h","o","t","o",".","i","s","o","<","=","8","0","0",")">>

\* (size>1 AND size<5)
K_sizeGroup ==
    <<"(","s","i","z","e",">","1"," ","A","N","D"," ","s","i","z","e","<","5",")">>

\* (mtime<=2024-12-31 AND mtime>=2024-01-01)
K_mtimeGroup ==
    <<"(","m","t","i","m","e","<","=","2","0","2","4","-","1","2","-","3","1"," ","A","N","D"," ","m","t","i","m","e",">","=","2","0","2","4","-","0","1","-","0","1",")">>

\* (photo.fnumber>=1.8 AND photo.fnumber<=2.8)
K_fnumberGroup ==
    <<"(","p","h","o","t","o",".","f","n","u","m","b","e","r",">","=","1",".","8"," ","A","N","D"," ","p","h","o","t","o",".","f","n","u","m","b","e","r","<","=","2",".","8",")">>

\* (SIZE>=1 and SIZE<=2)
K_sizeGroupLower ==
    <<"(","S","I","Z","E",">","=","1"," ","a","n","d"," ","S","I","Z","E","<","=","2",")">>

\* (size>=1 AND photo.iso<=2)
K_mixedGroup ==
    <<"(","s","i","z","e",">","=","1"," ","A","N","D"," ","p","h","o","t","o",".","i","s","o","<","=","2",")">>

\* (name:a AND (tags:b AND Type:1))
K_nestedGroup ==
    <<"(","n","a","m","e",":","a"," ","A","N","D"," ","(","t","a","g","s",":","b"," ","A","N","D"," ","T","y","p","e",":","1",")",")">>

\* (tags:a OR tags:b)
K_tagGroup ==
    <<"(","t","a","g","s",":","a"," ","O","R"," ","t","a","g","s",":","b",")">>

\* size<=1000
K_sizeMax ==
    <<"s","i","z","e","<","=","1","0","0","0">>

\* flavor:sweet
K_unknown ==
    <<"f","l","a","v","o","r",":","s","w","e","e","t">>

\* flavor>5
K_unknownRange ==
    <<"f","l","a","v","o","r",">","5">>

\* tags:a
K_tagsA ==
    <<"t","a","g","s",":","a">>

\* tag:b
K_tagB ==
    <<"t","a","g",":","b">>

\* tags:
K_tagsNone ==
    <<"t","a","g","s",":">>

\* size>=100
K_sizeMin ==
    <<"s","i","z","e",">","=","1","0","0">>

\* Type:2
K_type ==
    <<"T","y","p","e",":","2">>

\* banana
K_banana ==
    <<"b","a","n","a","n","a">>

\* banana smoothie
K_smoothie ==
    <<"b","a","n","a","n","a"," ","s","m","o","o","t","h","i","e">>

\* salt and pepper
K_salt ==
    <<"s","a","l","t"," ","a","n","d"," ","p","e","p","p","e","r">>

\* (the empty string)
K_empty ==
    <<>>

\* ()
K_emptyGroup ==
    <<"(",")">>

\* (
K_open ==
    <<"(">>

\* )
K_close ==
    <<")">>

\* (a
K_openText ==
    <<"(","a">>

\* b)
K_closeText ==
    <<"b",")">>

\* ((a))
K_deep ==
    <<"(","(","a",")",")">>

\* AND
K_and ==
    <<"A","N","D">>

\* :x
K_noField ==
    <<":","x">>

\* x:
K_noValue ==
    <<"x",":">>

\* size>=
K_noBound ==
    <<"s","i","z","e",">","=">>

\* size>=abc
K_sizeText ==
    <<"s","i","z","e",">","=","a","b","c">>

\* Type:3
K_typeOther ==
    <<"T","y","p","e",":","3">>

\* photo.orientation:0
K_orientationZero ==
    <<"p","h","o","t","o",".","o","r","i","e","n","t","a","t","i","o","n",":","0">>

SegVocab ==
    {K_sizeText, K_typeOther, K_orientationZero, K_tagsA, K_tagB, K_tagsNone,
     K_unknown, K_unknownRange, K_sizeMax,
     K_make, K_isoGroup, K_sizeGroup, K_mtimeGroup, K_fnumberGroup,
     K_sizeGroupLower, K_mixedGroup, K_nestedGroup, K_tagGroup, K_sizeMin,
     K_type, K_banana, K_smoothie, K_salt, K_empty,
     K_emptyGroup, K_open, K_close, K_openText, K_closeText,
     K_deep, K_and, K_noField, K_noValue, K_noBound}

InitParse ==
    /\ filters = createEmptyFilters
    /\ pc = "idle"
    /\ kqlQuery = <<>>
    /\ kqlInput = <<>>
    /\ thrown = FALSE
    /\ src = createEmptyFilters
    /\ segs = <<>>
    /\ topParts = <<>>
    /\ searchBody = <<>>
    /\ searchTerm = <<>>
    /\ NoRequests
    /\ NoHistory
    /\ rawValue = <<>>
    /\ escaped = <<>>

\* the field names typed in a single clause: the names of the translator in
\* the letter case of the code, in upper and in lower case, and two names it
\* does not know
FieldNames ==
    LET names == {S_name, <<"T","y","p","e">>, S_size, S_mtime, S_mediatype, S_tags, S_tag,
                  S_content, S_cameramake, S_cameramodel, S_takendatetime, S_iso,
                  S_fnumber, S_focallength, S_orientation,
                  <<"x">>, S_photo \o <<"f","l","a","s","h">>}
    IN  names \cup {toUpperCase(n) : n \in names} \cup {toLowerCase(n) : n \in names}

\* what stands between the field and the value of a clause
ClauseOps == {<<":">>, S_GE, S_LE, <<">">>, <<"<">>}

\* onKqlInput(value): setKqlQuery(value); the value is clause texts joined by
\* ' AND ', or one clause of a field, an operator and the value 1
onKqlInput ==
    /\ pc = "idle"
    /\ \/ \E n \in 1..MaxSegs : \E ss \in [1..n -> SegVocab] :
             /\ segs' = ss
             /\ kqlQuery' = join(ss, S_AND)
       \/ \E name \in FieldNames : \E op \in ClauseOps :
             /\ segs' = <<name \o op \o <<"1">>>>
             /\ kqlQuery' = name \o op \o <<"1">>
    /\ pc' = "typed"
    /\ UNCHANGED <<historyVars, requestVars, searchTerm, searchBody, filters, kqlInput, thrown, src, topParts, rawValue, escaped>>

NextParse ==
    \/ onKqlInput
    \/ applyKqlToFilters

SpecParse == InitParse /\ [][NextParse]_vars

-----------------------------------------------------------------------------
(* Claims about the parser, checked under SpecParse.                       *)

\* C2: parseKqlToFilters returns normally for every input string: the
\* recursion over parenthesized groups ends and nothing is thrown, also for
\* unbalanced parentheses, empty groups, dangling ANDs and clauses with an
\* empty field or value.
C2_ParseNeverThrows == pc = "parsed" => ~thrown

C2_Witness ==
    /\ pc = "parsed"
    /\ segs = <<K_deep, K_emptyGroup>>
    /\ ~thrown
    /\ filters.term = Str(<<"a">>)

\* how deep in parentheses the text before position p of q is
DepthAt(q, p) == count(Sub(q, 1, p - 1), "(") - count(Sub(q, 1, p - 1), ")")

\* the text q had before clause i of the typed clauses ss
TextBefore(ss, i) == join(SubSeq(ss, 1, i - 1), S_AND)

\* clause i of the typed clauses is a top-level clause of the query
TopLevel(ss, i) == count(TextBefore(ss, i), "(") = count(TextBefore(ss, i), ")")

\* the clause text compares the field with < or >
Touches(seg, field) ==
    \/ includes(toLowerCase(seg), field \o <<"<">>)
    \/ includes(toLowerCase(seg), field \o <<">">>)

\* the groups of two comparisons of one field, with the range they stand for
GroupClauses ==
    {[text |-> K_isoGroup, field |-> S_iso, section |-> "photo", key |-> "isoRange",
      range |-> NumericRange(IntNum(100), IntNum(800))],
     [text |-> K_sizeGroup, field |-> S_size, section |-> "standard", key |-> "sizeRange",
      range |-> NumericRange(IntNum(1), IntNum(5))],
     [text |-> K_mtimeGroup, field |-> S_mtime, section |-> "standard", key |-> "modifiedRange",
      range |-> DateRange(Str(D_jan1), Str(D_dec31))],
     [text |-> K_fnumberGroup, field |-> S_fnumber, section |-> "photo", key |-> "fNumberRange",
      range |-> NumericRange(Num(FALSE, 1, <<"8">>), Num(FALSE, 2, <<"8">>))]}

\* where the word AND, in any letter case, stands between white space in q
AndWords(q) ==
    {p \in 2..(Len(q) - 3) :
        /\ q[p - 1] \in Whitespace
        /\ toUpperCase(Sub(q, p, p + 2)) = <<"A","N","D">>
        /\ q[p + 3] \in Whitespace}

\* the k-th smallest member of the set S of numbers
Nth(S, k) == CHOOSE x \in S : Cardinality({y \in S : y < x}) = k - 1

\* the texts of q between the ANDs at the positions at, in order
PiecesAt(q, at) ==
    LET n == Cardinality(at)
        from(k) == IF k = 1 THEN 1 ELSE Nth(at, k - 1) + 3
        to(k) == IF k = n + 1 THEN Len(q) ELSE Nth(at, k) - 1
    IN  [k \in 1..(n + 1) |-> trim(Sub(q, from(k), to(k)))]

\* q without its white space, in upper case
Squeeze(q) == toUpperCase(SelectSeq(q, LAMBDA c : c \notin Whitespace))

\* every AND of q joins two clauses: no clause is the word AND itself and no
\* two ANDs follow each other
AndsJoinClauses(q) ==
    LET all == PiecesAt(q, AndWords(q))
    IN  /\ \A k \in 1..Len(all) : toUpperCase(all[k]) # <<"A","N","D">>
        /\ \A k \in 2..(Len(all) - 1) : all[k] # <<>>

\* C6: a top-level clause that is a group of two comparisons of one range
\* field joined by AND sets the range of that field, min from >= or >, max
\* from <= or <, when no later clause compares the same field; the other
\* top-level clauses of the query are parsed too.  The ANDs of the query
\* each join two clauses.
C6_GroupRange ==
    (pc = "parsed" /\ AndsJoinClauses(kqlInput)) =>
        \A i \in 1..Len(segs) :
            TopLevel(segs, i) =>
                /\ \A g \in GroupClauses :
                      (/\ segs[i] = g.text
                       /\ \A j \in (i + 1)..Len(segs) : ~Touches(segs[j], g.field))
                      => filters[g.section][g.key] = g.range
                /\ segs[i] = K_make => filters.photo.cameraMake = Str(<<"C","a","n","o","n">>)

C6_Witness ==
    /\ pc = "parsed"
    /\ segs = <<K_make, K_isoGroup>>
    /\ filters.photo.cameraMake = Str(<<"C","a","n","o","n">>)
    /\ filters.photo.isoRange = NumericRange(IntNum(100), IntNum(800))

FreeText(s) ==
    /\ \A i \in 1..Len(s) : s[i] \notin {":", "<", ">", "=", "(", ")"}
    /\ ~includes(s, <<"A","N","D">>)
    /\ s = trim(s) /\ s # <<>> /\ s # <<"*">>

\* C8: a query without ':', comparison operator, parenthesis or upper-case
\* AND, the lower-case word 'and' allowed, is parsed to a term equal to the
\* text with every structured field empty; several such clauses are joined
\* in term by a single space.
C8_FreeTextIsTerm ==
    (pc = "parsed" /\ \A i \in 1..Len(segs) : FreeText(segs[i])) =>
        /\ filters.term = Str(join(segs, <<" ">>))
        /\ filters.standard = EmptyStandard
        /\ filters.photo = EmptyPhoto


-----------------------------------------------------------------------------
(* Further properties of the serializer, under SpecBuild.                  *)

\* the trimmed texts of s between its commas, in order
CommaPieces(s) ==
    LET at == {i \in 1..Len(s) : s[i] = ","}
        n == Cardinality(at)
        from(k) == IF k = 1 THEN 1 ELSE Nth(at, k - 1) + 1
        to(k) == IF k = n + 1 THEN Len(s) ELSE Nth(at, k) - 1
    IN  [k \in 1..(n + 1) |-> trim(Sub(s, from(k), to(k)))]

\* the clause 'tags:<escaped tag>'
TagClause(tag) == S_tags \o <<":">> \o escapeKQL(tag)

\* C11: the tags are the non-empty trimmed texts between the commas; one tag
\* gives the clause 'tags:<escaped tag>', two or more give one group in
\* parentheses of such clauses joined by ' OR ' in input order, none gives no
\* tags clause.
C11_TagsClause ==
    (pc = "built" /\ src.standard.tags.t = "string") =>
        LET tags == SelectSeq(CommaPieces(src.standard.tags.s), LAMBDA x : x # <<>>)
            group == <<"(">> \o join([k \in 1..Len(tags) |-> TagClause(tags[k])], S_OR)
                     \o <<")">>
        IN  /\ Occurrences(kqlQuery, S_tags \o <<":">>) = Len(tags)
            /\ Len(tags) = 1 =>
                  /\ IsClauseOf(kqlQuery, TagClause(tags[1]))
                  /\ ~includes(kqlQuery, <<"(">> \o S_tags)
            /\ Len(tags) > 1 => IsClauseOf(kqlQuery, group)

C11_Witness ==
    /\ pc = "built"
    /\ src.standard.tags = Str(<<"x"," ","y",","," ",",","z">>)
    /\ kqlQuery = <<"(","t","a","g","s",":","x","\\"," ","y"," ","O","R"," ",
                    "t","a","g","s",":","z",")">>


\* the clause the type is written as: Type:1 for a file, Type:2 for a folder
TypeCode(type) ==
    <<"T","y","p","e",":">> \o (IF type = Str(S_file) THEN <<"1">> ELSE <<"2">>)

-----------------------------------------------------------------------------
(* The field vocabulary of the two directions, under SpecParse.            *)

\* the filter states with one structured field set
Probes ==
    UNION {{[createEmptyFilters EXCEPT !.standard[k] = v] : v \in StandardValues[k]} :
              k \in StandardKeys}
    \cup UNION {{[createEmptyFilters EXCEPT !.photo[k] = v] : v \in PhotoValues[k]} :
                   k \in PhotoKeys}

\* the serializer can emit the field name, in some letter case, in a clause
\* with the colon (op is ':') or in a comparison (op is one of >= <= > <)
Emits(name, op) ==
    LET ops == IF op = <<":">> THEN {<<":">>} ELSE {S_GE, S_LE}
    IN  \E f \in Probes : \E o \in ops :
           LET q == toLowerCase(buildKQL(f).value)
               c == toLowerCase(name) \o o
           IN  Sub(q, 1, Len(c)) = c \/ Sub(q, 1, Len(c) + 1) = <<"(">> \o c

\* the parser stored the clause in a structured field
Recognized == filters.term = Str(<<>>) /\ filters # createEmptyFilters

\* C13 as stated: every field the serializer can emit is recognized by the
\* parser in the same form, in any letter case, and every field the parser
\* recognizes is one the serializer can emit.
C13_SameVocabulary ==
    pc = "parsed" =>
        \A name \in FieldNames : \A op \in ClauseOps :
            kqlInput = name \o op \o <<"1">> => (Emits(name, op) <=> Recognized)

\* C13, amended: every field the serializer can emit is recognized by the
\* parser in the same form, in any letter case; every field the parser
\* recognizes is one the serializer can emit, or is 'tag', which the parser
\* reads as 'tags'.
C13_SameVocabularyButTag ==
    pc = "parsed" =>
        \A name \in FieldNames : \A op \in ClauseOps :
            kqlInput = name \o op \o <<"1">> =>
                /\ Emits(name, op) => Recognized
                /\ Recognized => (Emits(name, op) \/ toLowerCase(name) \o op = S_tag \o <<":">>)

C13_Witness ==
    /\ pc = "parsed"
    /\ kqlInput = toUpperCase(S_iso) \o <<"<", "1">>
    /\ filters.photo.isoRange = NumericRange(Undefined, IntNum(1))


-----------------------------------------------------------------------------
(* The filter panel (components/SearchFilters.vue) and the chips: the      *)
(* range inputs are edited, filters are removed or cleared, a search is    *)
(* run and its query is applied to the filters.                            *)

\* updateSizeRange ... updateFocalLengthRange: category, rangeKey and type
RangeInputs ==
    {<<"standard", "sizeRange", "numeric">>,
     <<"standard", "modifiedRange", "date">>,
     <<"photo", "takenDateRange", "date">>,
     <<"photo", "isoRange", "numeric">>,
     <<"photo", "fNumberRange", "float">>,
     <<"photo", "focalLengthRange", "float">>}

\* what the input element of a bound holds: empty, or a value of its type
InputValues(type) ==
    IF type = "date" THEN {<<>>, D_jan1}
    ELSE IF type = "float" THEN {<<>>, <<"1",".","8">>}
    ELSE {<<>>, <<"5">>}

\* updateRange(category, rangeKey, field, value, type) on the filters f: the
\* section the panel emits, assigned by updateStandardFilters or
\* updatePhotoFilters
updateRangeOf(f, category, rangeKey, field, value, type) ==
    LET section == f[category]
        current == IF Truthy(section[rangeKey]) THEN section[rangeKey]
                   ELSE IF type = "date" THEN DateRange(Str(<<>>), Str(<<>>))
                   ELSE NumericRange(Undefined, Undefined)
        parsedValue == IF type = "date" THEN Str(value)
                       ELSE IF type = "float"
                       THEN (IF value # <<>> THEN parseFloat(value) ELSE Undefined)
                       ELSE (IF value # <<>> THEN parseInt(value) ELSE Undefined)
        updated == [current EXCEPT ![field] = parsedValue]
    IN  [f EXCEPT ![category][rangeKey] = updated]

\* the filter ids of removeFilter, with the section and key each one clears
FilterIds ==
    {<<"name", "standard", "name">>, <<"type", "standard", "type">>,
     <<"mediaType", "standard", "mediaType">>, <<"tags", "standard", "tags">>,
     <<"size", "standard", "sizeRange">>, <<"mtime", "standard", "modifiedRange">>,
     <<"content", "standard", "content">>, <<"cameraMake", "photo", "cameraMake">>,
     <<"cameraModel", "photo", "cameraModel">>, <<"takenDate", "photo", "takenDateRange">>,
     <<"iso", "photo", "isoRange">>, <<"fNumber", "photo", "fNumberRange">>,
     <<"focalLength", "photo", "focalLengthRange">>}

\* removeFilter(filterId) on the filters f
removeFilterOf(f, filterId) ==
    IF filterId = "term" THEN [f EXCEPT !.term = Str(<<>>)]
    ELSE IF filterId = "type" THEN [f EXCEPT !.standard.type = Str(<<>>)]
    ELSE IF \E e \in FilterIds : e[1] = filterId
    THEN LET e == CHOOSE e \in FilterIds : e[1] = filterId
         IN  [f EXCEPT ![e[2]][e[3]] = Undefined]
    ELSE f

\* activeFilters: the ids of the chips shown for the filters f
activeFilterIds(f) ==
    (IF Truthy(f.term) /\ trim(f.term.s) # <<>> THEN {"term"} ELSE {})
    \cup {e[1] : e \in {x \in FilterIds : x[3] \in {"name", "type", "mediaType", "tags", "content",
                                                     "cameraMake", "cameraModel"}
                                          /\ Truthy(f[x[2]][x[3]])}}
    \cup {e[1] : e \in {x \in FilterIds : x[3] \in {"sizeRange", "isoRange", "fNumberRange",
                                                     "focalLengthRange"}
                                          /\ Truthy(f[x[2]][x[3]])
                                          /\ (Truthy(Prop(f[x[2]][x[3]], "min"))
                                              \/ Truthy(Prop(f[x[2]][x[3]], "max")))}}
    \cup {e[1] : e \in {x \in FilterIds : x[3] \in {"modifiedRange", "takenDateRange"}
                                          /\ Truthy(f[x[2]][x[3]])
                                          /\ (Truthy(Prop(f[x[2]][x[3]], "start"))
                                              \/ Truthy(Prop(f[x[2]][x[3]], "end")))}}

\* an input of a range is edited: updateRange, then the emitted section is
\* assigned to state.filters
updateRange ==
    /\ pc \in {"edit", "parsed", "edited"}
    /\ \E input \in RangeInputs :
          \E field \in (IF input[3] = "date" THEN {"start", "end"} ELSE {"min", "max"}) :
             \E value \in InputValues(input[3]) :
                /\ filters' = updateRangeOf(filters, input[1], input[2], field, value, input[3])
                /\ SetCount(filters') <= MaxRanges
    /\ pc' = IF pc = "edit" THEN "edit" ELSE "edited"
    /\ UNCHANGED <<historyVars, requestVars, searchTerm, searchBody, kqlQuery, kqlInput, thrown, src, segs, topParts, rawValue, escaped>>

\* a chip is removed: removeFilter(filter.id)
removeFilter ==
    /\ pc \in {"edit", "parsed", "edited", "searched", "no space"}
    /\ \E filterId \in activeFilterIds(filters) :
          filters' = removeFilterOf(filters, filterId)
    /\ pc' = IF pc \in {"parsed", "edited"} THEN "edited" ELSE pc
    /\ UNCHANGED <<historyVars, requestVars, searchTerm, searchBody, kqlQuery, kqlInput, thrown, src, segs, topParts, rawValue, escaped>>

\* clearFilters(); what the last build and the last parse were called with is
\* forgotten
clearFilters ==
    /\ pc \in {"edit", "parsed", "edited", "searched", "no space"}
    /\ filters' = createEmptyFilters
    /\ kqlQuery' = <<>>
    /\ src' = createEmptyFilters
    /\ kqlInput' = <<>>
    /\ topParts' = <<>>
    /\ thrown' = FALSE
    /\ results' = Null
    /\ pc' = "edit"
    /\ UNCHANGED <<historyVars, loading, inflight, started, searchTerm, searchBody, segs, rawValue, escaped>>

NextPanel ==
    \/ updateRange
    \/ removeFilter
    \/ clearFilters
    \/ BuildKQL
    \/ applyKqlToFilters

SpecPanel == InitBuild /\ [][NextPanel]_vars

\* C14: in every reachable filter state each range field is absent or has at
\* least one bound set.
C14_NoEmptyRange ==
    \A r \in RangeFields :
        LET range == filters[r[1]][r[2]]
        IN  range = Undefined \/ (IF r[4] THEN ~NoDateBound(range) ELSE ~NoNumericBound(range))


\* C16: the result of parseKqlToFilters(q) depends only on q: whatever the
\* filters held before the call, they hold afterwards what parsing q from
\* the empty filters yields, and the empty filters when q is empty or '*'.
C16_ParseDependsOnQueryOnly ==
    pc = "parsed" =>
        /\ filters = parseKqlToFilters(createEmptyFilters, kqlInput).filters
        /\ kqlInput \in {<<>>, <<"*">>} => filters = createEmptyFilters

C16_Witness ==
    /\ pc = "parsed"
    /\ src.standard.sizeRange # Undefined
    /\ kqlInput \notin {<<>>, <<"*">>}
    /\ filters = parseKqlToFilters(createEmptyFilters, kqlInput).filters

-----------------------------------------------------------------------------
(* Further properties of the parser, under SpecParse.                      *)

\* v is a number
IsNumber(v) == v.t = "number"

\* C15: after parsing, standard.type is 'file', 'folder' or unset,
\* photo.orientation is a positive integer or unset, and every bound of a
\* numeric range that is set is a number, never NaN.
C15_DeclaredDomains ==
    pc = "parsed" =>
        /\ filters.standard.type \in {Undefined, Str(<<>>), Str(S_file), Str(S_folder)}
        /\ LET o == filters.photo.orientation
           IN  o = Undefined \/ (IsNumber(o) /\ ~o.neg /\ o.i > 0 /\ o.f = <<>>)
        /\ \A r \in {x \in RangeFields : ~x[4]} :
              LET range == filters[r[1]][r[2]]
              IN  range # Undefined =>
                     \A k \in {"min", "max"} : range[k] = Undefined \/ IsNumber(range[k])


\* the top-level parts of the query, each one trimmed as parseKqlPart gets it
TrimmedParts == [k \in 1..Len(topParts) |-> trim(topParts[k])]

\* part is a clause of the field 'tags' or of its alias 'tag'
IsTagsClause(part) ==
    \E w \in {S_tags, S_tag} :
        /\ Len(part) > Len(w)
        /\ toLowerCase(Sub(part, 1, Len(w))) = w
        /\ part[Len(w) + 1] = ":"

\* the text after the colon of a clause
ValueOf(part) == Sub(part, indexOf(part, ":") + 1, Len(part))

\* the values of the top-level tags clauses, in the order of the query
TagValues ==
    LET clauses == SelectSeq(TrimmedParts, IsTagsClause)
    IN  [k \in 1..Len(clauses) |-> ValueOf(clauses[k])]

\* no top-level part of the query is a group in parentheses
NoGroups == \A k \in 1..Len(TrimmedParts) : Head(TrimmedParts[k] \o <<" ">>) # "("

\* values without the empty ones that come before the first non-empty one
RECURSIVE DropEmptyHead(_)
DropEmptyHead(values) ==
    IF values = <<>> THEN <<>>
    ELSE IF Head(values) = <<>> THEN DropEmptyHead(Tail(values))
    ELSE values

Without(ss, i) == SubSeq(ss, 1, i - 1) \o SubSeq(ss, i + 1, Len(ss))

C20_SeparateClausesKeepBothBounds ==
    (pc = "parsed" /\ Len(segs) = 2 /\ {segs[1], segs[2]} = {K_sizeMin, K_sizeMax}) =>
        filters.standard.sizeRange = NumericRange(IntNum(100), IntNum(1000))

-----------------------------------------------------------------------------
(* The search request (executeSearch): the query built from the filters is *)
(* embedded in the XML body of the WebDAV REPORT.                          *)

\* str.replace(/c/g, rep) for a single character c
RECURSIVE replaceAll(_, _, _)
replaceAll(str, c, rep) ==
    IF str = <<>> THEN <<>>
    ELSE (IF Head(str) = c THEN rep ELSE <<Head(str)>>) \o replaceAll(Tail(str), c, rep)

E_amp == <<"&","a","m","p",";">>
E_lt == <<"&","l","t",";">>
E_gt == <<"&","g","t",";">>
E_quot == <<"&","q","u","o","t",";">>
E_apos == <<"&","a","p","o","s",";">>

\* an escapeXML that would replace '&' after the other characters
escapeXML_ampLast(str) ==
    replaceAll(replaceAll(replaceAll(replaceAll(replaceAll(str,
        "<", E_lt), ">", E_gt), "\"", E_quot), "'", E_apos), "&", E_amp)

\* escapeXML(str): five replacements, one after the other, '&' first
escapeXML(str) ==
    replaceAll(replaceAll(replaceAll(replaceAll(replaceAll(str,
        "&", E_amp), "<", E_lt), ">", E_gt), "\"", E_quot), "'", E_apos)

PatternOpen == <<"<","o","c",":","p","a","t","t","e","r","n",">">>
PatternClose == <<"<","/","o","c",":","p","a","t","t","e","r","n",">">>

\* the element of searchBody that carries the pattern
searchBodyOf(pattern) == PatternOpen \o escapeXML(pattern) \o PatternClose

\* the characters a search term is typed from
XmlChars == {"&", "<", ">", "\"", "'", "a", ";"}

InitSearch ==
    /\ filters \in {[createEmptyFilters EXCEPT !.term = Str(t), !.standard.sizeRange = r] :
                       t \in StringsUpTo(XmlChars, MaxXmlLen),
                       r \in {Undefined, NumericRange(IntNum(1), IntNum(5))}}
    /\ kqlQuery = <<>>
    /\ kqlInput = <<>>
    /\ thrown = FALSE
    /\ src = createEmptyFilters
    /\ segs = <<>>
    /\ topParts = <<>>
    /\ searchBody = <<>>
    /\ searchTerm = <<>>
    /\ NoRequests
    /\ NoHistory
    /\ rawValue = <<>>
    /\ escaped = <<>>
    /\ pc = "edit"

\* createEmptyResults(), written by the call with number call
createEmptyResults(call) == [items |-> <<>>, hasMore |-> FALSE, currentPage |-> 0, call |-> call]

\* executeSearch(page) up to the await of the request: loading is set,
\* state.kqlQuery = buildKQLQuery.value, and when there is a space the body is
\* put together around escapeXML(state.kqlQuery) and the request is sent;
\* without a space the call ends at once with empty results.  When the
\* query cannot be built the call is left with loading set.
startSearch(f, page) ==
    /\ pc \in {"edit", "searched", "no space", "parsed", "edited"}
    /\ started < MaxRequests
    /\ \E r \in {buildKQLQuery(f)} : \E hasSpace \in BOOLEAN :
          /\ thrown' = r.thrown
          /\ kqlQuery' = IF r.thrown THEN kqlQuery ELSE r.value
          /\ pc' = IF r.thrown THEN "threw" ELSE IF hasSpace THEN "searched" ELSE "no space"
          /\ searchBody' = IF r.thrown \/ ~hasSpace THEN searchBody ELSE searchBodyOf(r.value)
          /\ loading' = (r.thrown \/ hasSpace)
          /\ results' = IF ~r.thrown /\ ~hasSpace THEN createEmptyResults(started + 1)
                        ELSE results
          /\ inflight' = IF ~r.thrown /\ hasSpace
                         THEN inflight \cup {[call |-> started + 1, page |-> page,
                                              pattern |-> r.value]}
                         ELSE inflight
    /\ started' = started + 1
    /\ src' = f
    /\ UNCHANGED <<historyVars, kqlInput, segs, topParts, rawValue, escaped>>

\* executeSearch(page) on the filters as they are
executeSearchFrom(page) ==
    /\ startSearch(filters, page)
    /\ UNCHANGED <<filters, searchTerm>>

\* handleSearch(): executeSearch()
executeSearch == executeSearchFrom(0)

NextSearch == executeSearch

SpecSearch == InitSearch /\ [][NextSearch]_vars

\* the XML entity of a character, the character itself if it has none
EntityOf(c) ==
    CASE c = "&" -> E_amp
      [] c = "<" -> E_lt
      [] c = ">" -> E_gt
      [] c = "\"" -> E_quot
      [] c = "'" -> E_apos
      [] OTHER -> <<c>>

\* str with every character replaced by its entity, once
RECURSIVE EntityText(_)
EntityText(str) ==
    IF str = <<>> THEN <<>> ELSE EntityOf(Head(str)) \o EntityText(Tail(str))

\* what searchBody holds between <oc:pattern> and </oc:pattern>
Embedded == Sub(searchBody, Len(PatternOpen) + 1, Len(searchBody) - Len(PatternClose))

\* C19: the body of the search request embeds the query with each of
\* & < > " ' replaced once by its XML entity, never the raw query: the
\* embedded text holds none of < > " ' and holds '&' only as the first
\* character of one of the five entities, and no entity is escaped twice.
C19_BodyEmbedsEscapedQuery ==
    pc = "searched" =>
        /\ searchBody = PatternOpen \o Embedded \o PatternClose
        /\ Embedded = EntityText(kqlQuery)
        /\ \A i \in 1..Len(Embedded) :
              /\ Embedded[i] \notin {"<", ">", "\"", "'"}
              /\ Embedded[i] = "&" =>
                    \E e \in {E_amp, E_lt, E_gt, E_quot, E_apos} :
                        Sub(Embedded, i, i + Len(e) - 1) = e

C19_Witness ==
    /\ pc = "searched"
    /\ src.term = Str(<<"&", "<">>)
    /\ src.standard.sizeRange # Undefined
    /\ includes(Embedded, E_amp \o <<"\\">> \o E_lt)
    /\ includes(Embedded, E_gt \o <<"=", "1">>)


-----------------------------------------------------------------------------
(* The saved searches (composables/useSearchHistory.ts): the list in       *)
(* memory and its copy in localStorage, whose writes may fail.             *)

\* a JavaScript boolean
Bool(b) == [t |-> "boolean", b |-> b]

\* the names a search is saved under
QueryNames == {<<"a">>, <<"b">>}

\* a SavedQuery; its filters and its date play no part here
SavedQuery(id, name) == [id |-> id, name |-> name]

\* the message saveToStorage reports when localStorage.setItem throws
WriteError == Str(<<"F","a","i","l","e","d"," ","t","o"," ","s","a","v","e">>)

\* saveToStorage(queries) when the item holds stored: the item afterwards
\* and the result, ok telling whether localStorage.setItem succeeds
saveToStorage(queries, stored, ok) ==
    IF ok THEN [storage |-> queries, success |-> TRUE, error |-> Null]
    ELSE [storage |-> stored, success |-> FALSE, error |-> WriteError]

\* findIndex(q => q.id === id), 0 for -1
findIndex(list, id) ==
    LET S == {i \in 1..Len(list) : list[i].id = id}
    IN  IF S = {} THEN 0 ELSE CHOOSE i \in S : \A j \in S : i <= j

\* list.splice(index, 1) and list.splice(index, 0, q)
spliceOut(list, index) == SubSeq(list, 1, index - 1) \o SubSeq(list, index + 1, Len(list))
spliceIn(list, index, q) == SubSeq(list, 1, index - 1) \o <<q>> \o SubSeq(list, index, Len(list))

\* a saveQuery that would keep the new entry when the write fails
saveQueryOf_noRollback(list, stored, error, query, ok) ==
    LET pushed == <<query>> \o list
        result == saveToStorage(pushed, stored, ok)
    IN  [savedQueries |-> pushed, storage |-> result.storage,
         storageError |-> result.error,
         returned |-> IF result.success THEN query ELSE Null]

\* saveQuery(name, filters) with the new entry query: unshift, write, and on
\* failure shift
saveQueryOf(list, stored, error, query, ok) ==
    LET pushed == <<query>> \o list
        result == saveToStorage(pushed, stored, ok)
    IN  IF ~result.success
        THEN [savedQueries |-> Tail(pushed), storage |-> result.storage,
              storageError |-> result.error, returned |-> Null]
        ELSE [savedQueries |-> pushed, storage |-> result.storage,
              storageError |-> Null, returned |-> query]

\* deleteQuery(id)
deleteQueryOf(list, stored, error, id, ok) ==
    LET index == findIndex(list, id)
        removed == list[index]
        spliced == spliceOut(list, index)
        result == saveToStorage(spliced, stored, ok)
    IN  IF index = 0
        THEN [savedQueries |-> list, storage |-> stored, storageError |-> error,
              returned |-> Bool(FALSE)]
        ELSE IF ~result.success
        THEN [savedQueries |-> spliceIn(spliced, index, removed), storage |-> result.storage,
              storageError |-> result.error, returned |-> Bool(FALSE)]
        ELSE [savedQueries |-> spliced, storage |-> result.storage,
              storageError |-> Null, returned |-> Bool(TRUE)]

\* renameQuery(id, newName)
renameQueryOf(list, stored, error, id, newName, ok) ==
    LET index == findIndex(list, id)
        oldName == list[index].name
        renamed == [list EXCEPT ![index].name = newName]
        result == saveToStorage(renamed, stored, ok)
    IN  IF index = 0
        THEN [savedQueries |-> list, storage |-> stored, storageError |-> error,
              returned |-> Bool(FALSE)]
        ELSE IF ~result.success
        THEN [savedQueries |-> [renamed EXCEPT ![index].name = oldName],
              storage |-> result.storage,
              storageError |-> result.error, returned |-> Bool(FALSE)]
        ELSE [savedQueries |-> renamed, storage |-> result.storage,
              storageError |-> Null, returned |-> Bool(TRUE)]

\* the entries of an imported list: a query with a name and filters, a
\* query without a name, and null
ImportEntries ==
    {[kind |-> "query", name |-> n] : n \in QueryNames \cup {<<>>}} \cup {[kind |-> "null"]}

\* what JSON.parse(json) gives: it throws, or it yields an object that is no
\* array, or a list of entries
JsonInputs ==
    {[kind |-> "invalid"], [kind |-> "object"]}
    \cup {[kind |-> "array", entries |-> e] :
             e \in UNION {[1..n -> ImportEntries] : n \in 0..MaxImport}}

\* the loop of importQueries from entry i on: reading a property of null
\* throws, an entry with a name and filters gets a new id and is pushed
RECURSIVE importLoop(_, _, _, _, _)
importLoop(list, entries, i, added, ids) ==
    IF i > Len(entries) THEN [savedQueries |-> list, count |-> added, thrown |-> FALSE, ids |-> ids]
    ELSE IF entries[i].kind = "null"
    THEN [savedQueries |-> list, count |-> added, thrown |-> TRUE, ids |-> ids]
    ELSE IF entries[i].name # <<>>
    THEN importLoop(Append(list, SavedQuery(ids + 1, entries[i].name)), entries, i + 1,
                    added + 1, ids + 1)
    ELSE importLoop(list, entries, i + 1, added, ids)

\* importQueries(json)
importQueriesOf(list, stored, error, json, ids, ok) ==
    LET loop == importLoop(list, json.entries, 1, 0, ids)
        result == saveToStorage(loop.savedQueries, stored, ok)
    IN  IF json.kind \in {"invalid", "object"}
        THEN [savedQueries |-> list, storage |-> stored, storageError |-> error,
              returned |-> IntNum(0), ids |-> ids]
        ELSE IF loop.thrown
        THEN [savedQueries |-> loop.savedQueries, storage |-> stored, storageError |-> error,
              returned |-> IntNum(0), ids |-> loop.ids]
        ELSE [savedQueries |-> loop.savedQueries,
              storage |-> IF loop.count > 0 THEN result.storage ELSE stored,
              storageError |-> error, returned |-> IntNum(loop.count), ids |-> loop.ids]

\* loadFromStorage() over an item that holds a valid list
loadFromStorage(stored) == stored

\* the lists localStorage may hold when the composable is set up
StoredLists == {<<>>, <<SavedQuery(0, <<"a">>)>>}

InitHistory ==
    /\ storage \in StoredLists
    /\ savedQueries = loadFromStorage(storage)
    /\ storageError = Null
    /\ returned = Undefined
    /\ nextId = 0
    /\ recentSearches = <<>>
    /\ readds = 0
    /\ NoRequests
    /\ filters = createEmptyFilters
    /\ kqlQuery = <<>>
    /\ kqlInput = <<>>
    /\ thrown = FALSE
    /\ src = createEmptyFilters
    /\ segs = <<>>
    /\ topParts = <<>>
    /\ rawValue = <<>>
    /\ escaped = <<>>
    /\ searchBody = <<>>
    /\ searchTerm = <<>>
    /\ pc = "ready"

\* what a call on the saved searches leaves alone
historyRest ==
    <<recentSearches, readds, requestVars, filters, kqlQuery, kqlInput, thrown, src, segs,
      topParts, rawValue, escaped, searchBody, searchTerm>>

saveQuery ==
    /\ nextId < MaxIds
    /\ Len(savedQueries) < MaxSaved
    /\ \E name \in QueryNames : \E ok \in BOOLEAN :
          \E r \in {saveQueryOf(savedQueries, storage, storageError,
                                 SavedQuery(nextId + 1, name), ok)} :
             /\ savedQueries' = r.savedQueries
             /\ storage' = r.storage
             /\ storageError' = r.storageError
             /\ returned' = r.returned
             /\ pc' = IF ok THEN "saved" ELSE "save failed"
    /\ nextId' = nextId + 1
    /\ UNCHANGED historyRest

deleteQuery ==
    /\ \E id \in 0..MaxIds : \E ok \in BOOLEAN :
          \E r \in {deleteQueryOf(savedQueries, storage, storageError, id, ok)} :
             /\ savedQueries' = r.savedQueries
             /\ storage' = r.storage
             /\ storageError' = r.storageError
             /\ returned' = r.returned
             /\ pc' = IF findIndex(savedQueries, id) = 0 THEN "unknown id"
                      ELSE IF ok THEN "deleted" ELSE "delete failed"
    /\ UNCHANGED <<nextId, historyRest>>

renameQuery ==
    /\ \E id \in 0..MaxIds : \E newName \in QueryNames : \E ok \in BOOLEAN :
          \E r \in {renameQueryOf(savedQueries, storage, storageError, id, newName, ok)} :
             /\ savedQueries' = r.savedQueries
             /\ storage' = r.storage
             /\ storageError' = r.storageError
             /\ returned' = r.returned
             /\ pc' = IF findIndex(savedQueries, id) = 0 THEN "unknown id"
                      ELSE IF ok THEN "renamed" ELSE "rename failed"
    /\ UNCHANGED <<nextId, historyRest>>

importQueries ==
    /\ \E json \in JsonInputs : \E ok \in BOOLEAN :
          \E r \in {importQueriesOf(savedQueries, storage, storageError, json, nextId, ok)} :
             /\ Len(r.savedQueries) <= MaxSaved
             /\ r.ids <= MaxIds
             /\ savedQueries' = r.savedQueries
             /\ storage' = r.storage
             /\ storageError' = r.storageError
             /\ returned' = r.returned
             /\ nextId' = r.ids
             /\ pc' = "imported"
    /\ UNCHANGED historyRest

NextHistory ==
    \/ saveQuery
    \/ deleteQuery
    \/ renameQuery
    \/ importQueries

SpecHistory == InitHistory /\ [][NextHistory]_vars


\* C21: when the localStorage write fails, saveQuery, deleteQuery and
\* renameQuery leave the list in memory as it was before the call, return
\* null (saveQuery) or false, and set storageError; deleteQuery and
\* renameQuery with an unknown id change nothing and return false.
C21_FailedWriteChangesNothing ==
    [][/\ pc' \in {"save failed", "delete failed", "rename failed"} =>
             /\ savedQueries' = savedQueries
             /\ storage' = storage
             /\ storageError' # Null
             /\ returned' = (IF pc' = "save failed" THEN Null ELSE Bool(FALSE))
       /\ pc' = "unknown id" =>
             /\ savedQueries' = savedQueries
             /\ storage' = storage
             /\ storageError' = storageError
             /\ returned' = Bool(FALSE)]_vars

C21_Witness ==
    /\ pc = "rename failed"
    /\ Len(savedQueries) = 2
    /\ savedQueries = storage
    /\ storageError = WriteError
    /\ returned = Bool(FALSE)


\* C22: after any sequence of saveQuery, deleteQuery, renameQuery and
\* importQueries calls in which any write may fail, the list in memory
\* equals the list last written to localStorage.
C22_MemoryEqualsStorage == savedQueries = storage

\* C29: the value importQueries returns is the number of entries it added
\* to savedQueries, and when it returns 0 the list is unchanged.
C29_ImportCountsWhatItAdds ==
    [][pc' = "imported" =>
          /\ returned' = IntNum(Len(savedQueries') - Len(savedQueries))
          /\ returned' = IntNum(0) => savedQueries' = savedQueries]_vars


-----------------------------------------------------------------------------
(* The recent searches (addToRecent, clearRecent).                         *)

MAX_RECENT == 10

\* the terms searched for, in the order in which new ones come up
Terms == <<<<"a">>, <<"b">>, <<"c">>, <<"d">>, <<"e">>, <<"f">>, <<"g">>, <<"h">>,
           <<"i">>, <<"j">>, <<"k">>>>

\* the terms addToRecent ignores
BlankTerms == {<<>>, <<" ">>, <<" ", " ">>}

\* list without its entries equal to term
WithoutTerm(list, term) == SelectSeq(list, LAMBDA x : x # term)

\* an addToRecent that would not look for the term in the list
addToRecentOf_noRemove(list, term) ==
    IF term = <<>> \/ trim(term) = <<>> THEN list
    ELSE SubSeq(<<term>> \o list, 1, IF Len(list) + 1 > MAX_RECENT THEN MAX_RECENT ELSE Len(list) + 1)

\* addToRecent(term) on the list
addToRecentOf(list, term) ==
    LET S == {i \in 1..Len(list) : list[i] = term}
        existing == IF S = {} THEN 0 ELSE CHOOSE i \in S : \A j \in S : i <= j
        spliced == IF existing # 0 THEN spliceOut(list, existing) ELSE list
        unshifted == <<term>> \o spliced
    IN  IF term = <<>> \/ trim(term) = <<>> THEN list
        ELSE IF Len(unshifted) > MAX_RECENT THEN SubSeq(unshifted, 1, MAX_RECENT)
        ELSE unshifted

\* the terms of the list
Listed(list) == {list[i] : i \in 1..Len(list)}

\* the first of Terms that is not listed
FreshTerm(list) ==
    Terms[CHOOSE i \in 1..Len(Terms) :
             /\ Terms[i] \notin Listed(list)
             /\ \A j \in 1..(i - 1) : Terms[j] \in Listed(list)]

InitRecent ==
    /\ recentSearches = <<>>
    /\ readds = 0
    /\ savedQueries = <<>>
    /\ storage = <<>>
    /\ storageError = Null
    /\ returned = Undefined
    /\ nextId = 0
    /\ NoRequests
    /\ filters = createEmptyFilters
    /\ kqlQuery = <<>>
    /\ kqlInput = <<>>
    /\ thrown = FALSE
    /\ src = createEmptyFilters
    /\ segs = <<>>
    /\ topParts = <<>>
    /\ rawValue = <<>>
    /\ escaped = <<>>
    /\ searchBody = <<>>
    /\ searchTerm = <<>>
    /\ pc = "ready"

\* what a call on the recent searches leaves alone
recentRest ==
    <<savedQueries, storage, storageError, returned, nextId, requestVars, filters, kqlQuery,
      kqlInput, thrown, src, segs, topParts, rawValue, escaped, searchBody, searchTerm>>

addToRecent ==
    /\ \E term \in BlankTerms \cup {FreshTerm(recentSearches)}
                     \cup (IF readds < MaxReAdds THEN Listed(recentSearches) ELSE {}) :
          /\ recentSearches' = addToRecentOf(recentSearches, term)
          /\ readds' = IF term \in Listed(recentSearches) THEN readds + 1 ELSE readds
          /\ pc' = IF term \in BlankTerms THEN "blank term" ELSE "added"
    /\ UNCHANGED recentRest

clearRecent ==
    /\ recentSearches' = <<>>
    /\ pc' = "cleared"
    /\ UNCHANGED <<readds, recentRest>>

NextRecent ==
    \/ addToRecent
    \/ clearRecent

SpecRecent == InitRecent /\ [][NextRecent]_vars

\* C30: recentSearches holds no string twice and at most 10 entries;
\* addToRecent with a term puts it first and keeps the other terms in their
\* order, so the list runs from the most to the least recently added term;
\* addToRecent with an empty or blank term leaves the list unchanged.
C30_RecentSearches ==
    /\ [](/\ Len(recentSearches) <= 10
          /\ \A i, j \in 1..Len(recentSearches) :
                recentSearches[i] = recentSearches[j] => i = j)
    /\ [][/\ pc' = "blank term" => recentSearches' = recentSearches
          /\ pc' = "added" =>
                /\ recentSearches' # <<>>
                /\ Head(recentSearches') \notin BlankTerms
                /\ LET others == WithoutTerm(recentSearches, Head(recentSearches'))
                   IN  Tail(recentSearches') =
                          SubSeq(others, 1, IF Len(others) > 9 THEN 9 ELSE Len(others))]_vars

C30_Witness ==
    /\ pc = "added"
    /\ Len(recentSearches) = 10
    /\ recentSearches[1] = Terms[1]
    /\ Terms[11] \in Listed(recentSearches)
    /\ readds = 1


-----------------------------------------------------------------------------
(* Requests and responses: executeSearch awaits the response of the        *)
(* server, so calls overlap when a second one is made before the response  *)
(* of the first has arrived.                                               *)

\* the texts typed into the main search input
SearchTerms == {<<>>, <<"a">>, <<"b">>}

\* the k-th result the server finds for a pattern
Item(pattern, k) == [pattern |-> pattern, rank |-> k]

\* the items of a response to a request: the body carries the pattern and
\* the limit only, so the server answers with its first n results, n <= limit
responseItems(request, n) == [k \in 1..n |-> Item(request.pattern, k)]

\* state.results after the response to request has been parsed into items
resultsOf(request, items, current) ==
    [items |-> IF request.page = 0 THEN items
               ELSE (IF current = Null THEN <<>> ELSE current.items) \o items,
     hasMore |-> Len(items) = PageSize,
     currentPage |-> request.page,
     call |-> request.call]

\* the search input is typed into: v-model, then watch(searchTerm)
typeSearchTerm ==
    /\ pc \in {"edit", "searched", "no space", "parsed", "edited"}
    /\ \E t \in SearchTerms \ {searchTerm} :
          /\ searchTerm' = t
          /\ filters' = watchSearchTerm(filters, searchTerm, t)
    /\ pc' = IF pc \in {"parsed", "edited"} THEN "edited" ELSE pc
    /\ UNCHANGED <<historyVars, requestVars, searchBody, kqlQuery, kqlInput, thrown, src, segs,
                   topParts, rawValue, escaped>>

\* loadMore(): nothing without results, without more or while loading
loadMore ==
    /\ results # Null
    /\ results.hasMore
    /\ ~loading
    /\ executeSearchFrom(results.currentPage + 1)

\* the response of a request arrives: try block after the await, finally
receiveResponse ==
    /\ \E request \in inflight : \E n \in 0..PageSize :
          /\ results' = resultsOf(request, responseItems(request, n), results)
          /\ inflight' = inflight \ {request}
    /\ loading' = FALSE
    /\ UNCHANGED <<historyVars, started, searchTerm, searchBody, filters, kqlQuery, kqlInput,
                   thrown, src, segs, topParts, rawValue, escaped, pc>>

\* the request fails: catch block, finally
failResponse ==
    /\ \E request \in inflight :
          /\ results' = createEmptyResults(request.call)
          /\ inflight' = inflight \ {request}
    /\ loading' = FALSE
    /\ UNCHANGED <<historyVars, started, searchTerm, searchBody, filters, kqlQuery, kqlInput,
                   thrown, src, segs, topParts, rawValue, escaped, pc>>

NextRequests ==
    \/ typeSearchTerm
    \/ executeSearch
    \/ loadMore
    \/ receiveResponse
    \/ failResponse

SpecRequests == InitBuild /\ [][NextRequests]_vars

\* C23: when executeSearch calls overlap, then once all of them have
\* completed state.results holds what the call started last has written.
C23_LastStartedWins ==
    (inflight = {} /\ started >= 2 /\ results # Null) => results.call = started

\* C24: state.loading is true exactly while at least one request awaits
\* its response.
C24_LoadingWhileInFlight == loading = (inflight # {})

\* C28: after any sequence of executeSearch and loadMore calls
\* state.results.items holds no result twice.
C28_NoResultTwice ==
    results # Null =>
        \A i, j \in 1..Len(results.items) : results.items[i] = results.items[j] => i = j


-----------------------------------------------------------------------------
(* The chips of the active filters against the serialized query, under     *)
(* SpecBuild.                                                              *)

\* the fields of a section of the filters
FieldsOf(section) == IF section = "standard" THEN StandardKeys ELSE PhotoKeys

\* the field contributes a clause: without it the query is another one
Contributes(f, section, key) ==
    buildKQLQuery([f EXCEPT ![section][key] = Undefined]).value # buildKQLQuery(f).value

\* C27: in every filter state the chips agree with the query: there is no
\* chip if and only if the serialized query is '*', and every field that
\* contributes a clause to the query has a chip.
C27_ChipsAgreeWithQuery ==
    (pc = "built" /\ Documented(src)) =>
        /\ activeFilterIds(src) = {} <=> kqlQuery = <<"*">>
        /\ \A section \in {"standard", "photo"} : \A key \in FieldsOf(section) :
              Contributes(src, section, key) =>
                 \E e \in FilterIds : e[2] = section /\ e[3] = key /\ e[1] \in activeFilterIds(src)

\* ---------------------------------------------------------------------
\* "Apply to Filters" after a filter edit (AdvancedSearchView.vue 434-439,
\* SearchFilters.vue 649-663).  The KQL input is bound to the computed
\* kqlQuery, so while nothing is typed it shows buildKQLQuery of the current
\* filters.
\* ---------------------------------------------------------------------

\* the text the KQL input shows when the filters are f and nothing was typed
\* since they changed
shownKql(f) == buildKQLQuery(f).value

\* C25: "Apply to Filters" parses the KQL text currently shown in the KQL
\* input: every step that applies (the panel moves to "parsed") leaves the
\* filters that parsing the shown text yields, so applying right after a
\* filter edit never brings back an earlier executed query.
C25_ApplyParsesShownText ==
    [][(pc # "parsed" /\ pc' = "parsed")
          => filters' = parseKqlToFilters(filters, shownKql(filters)).filters]_vars

\* ---------------------------------------------------------------------
\* The search view (AdvancedSearchView.vue): the search box, the chips with
\* Clear All, "Apply to Filters", the list of saved queries and the Search
\* button, on one state.
\* ---------------------------------------------------------------------

\* the filters of the queries the list of saved queries offers; they were
\* stored from state.filters by handleSaveQuery, so the term is a string and
\* JSON.parse(JSON.stringify(...)) reads back the same values
SavedFilters ==
    {[createEmptyFilters EXCEPT !.term = Str(t)] : t \in SearchTerms}
       \cup {[createEmptyFilters EXCEPT !.standard.name = Str(<<"a">>)]}

\* loadSavedQuery(query): the filters are replaced by a copy of the saved
\* ones, the search box is set to their term, and executeSearch() is called
\* before the watcher of searchTerm runs
loadSavedQuery ==
    \E query \in SavedFilters :
       /\ searchTerm' = termOrEmpty(query)
       /\ filters' = watchSearchTerm(query, searchTerm, searchTerm')
       /\ startSearch(query, 0)

NextView ==
    \/ typeSearchTerm
    \/ clearFilters
    \/ removeFilter
    \/ executeSearch
    \/ applyKqlToFilters
    \/ loadSavedQuery

SpecView == InitBuild /\ [][NextView]_vars

\* C26: after every user action in the search view, once the watchers have
\* run, the text of the main search input (searchTerm) equals
\* state.filters.term.
C26_SearchBoxEqualsTerm == filters.term = Str(searchTerm)

====
